---- MODULE Spec2Model ----
(***************************************************************************)
(* Peak-shaving charging strategy of spice_ev                              *)
(* (src/spice_ev/strategies/peak_shaving.py, src/src/util.py).             *)
(*                                                                         *)
(* Python floats are modelled as exact rationals <<n, d>> (d > 0, lowest   *)
(* terms).  Times are integers; one simulation interval is Interval time   *)
(* units and one hour is Hour time units.  Timestep indices are 0-based as *)
(* in the source; a Python list l is a sequence s with l[i] = s[i + 1].    *)
(* Python None is <<>> for optional numbers and "None" for optional ids.   *)
(***************************************************************************)
EXTENDS Integers, Sequences, FiniteSets, TLC

VARIABLES
    current_time,      \* Strategy.current_time
    vehicles,          \* world_state.vehicles: vid -> vehicle
    grid_connectors,   \* world_state.grid_connectors: gc_id -> connector
    batteries,         \* world_state.batteries: b_id -> stationary battery
    events,            \* PeakShaving.events (perfect foresight list)
    pc,                \* position of step(): see Next
    gc_todo,           \* connectors step() has still to pass to step_gc
    gc_id,             \* connector of the running step_gc call
    timesteps,         \* step_gc local: list of TimestepInfo
    vehicle_arrivals,  \* step_gc local: list of VehicleArrivalRecord (v_info)
    order,             \* step_gc local: `vehicles`, as indices into vehicle_arrivals
    v_pos,             \* position of the `for v_info in vehicles` loop (line 174)
    gc_commands,       \* step_gc local: charging_stations
    commands,          \* step(): charging_stations
    hist               \* history of the running step (read by the properties only)

vars == <<current_time, vehicles, grid_connectors, batteries, events, pc, gc_todo,
          gc_id, timesteps, vehicle_arrivals, order, v_pos, gc_commands, commands,
          hist>>

----------------------------------------------------------------------------
(* Rational arithmetic standing for Python float arithmetic. *)

Abs(x) == IF x < 0 THEN -x ELSE x

RECURSIVE Gcd(_, _)
Gcd(a, b) == IF b = 0 THEN a ELSE Gcd(b, a % b)

Rat(n, d) ==
    LET s == IF d < 0 THEN -1 ELSE 1
        g == Gcd(Abs(n), Abs(d))
    IN  <<(s * n) \div g, (s * d) \div g>>

Q(n) == <<n, 1>>
Zero == Q(0)
One == Q(1)

Add(a, b) == Rat(a[1] * b[2] + b[1] * a[2], a[2] * b[2])
Neg(a) == <<-a[1], a[2]>>
Sub(a, b) == Add(a, Neg(b))
Mul(a, b) == Rat(a[1] * b[1], a[2] * b[2])
Div(a, b) == Rat(a[1] * b[2], a[2] * b[1])
Lt(a, b) == a[1] * b[2] < b[1] * a[2]
Le(a, b) == a[1] * b[2] <= b[1] * a[2]
Gt(a, b) == Lt(b, a)
Ge(a, b) == Le(b, a)
Min(a, b) == IF Lt(b, a) THEN b ELSE a
Max(a, b) == IF Gt(b, a) THEN b ELSE a

None == <<>>
NoId == "None"

RECURSIVE SumSeq(_)
SumSeq(s) == IF s = <<>> THEN Zero ELSE Add(Head(s), SumSeq(Tail(s)))

----------------------------------------------------------------------------
(* Strategy parameters. *)

Interval == 2
Hour == 8
HORIZON == 7
EPS == Rat(1, 100000)
ts_per_hour == Rat(Hour, Interval)
timesteps_ahead == HORIZON \div Interval
H == timesteps_ahead

----------------------------------------------------------------------------
(* The fixed components of the scenario. *)

GridConnectorIds == <<"GC1", "GC2">>
VehicleIds == {"V1", "V2"}
BatteryIds == {"B1", "B2"}

\* world_state.charging_stations: parent connector and power limits
charging_stations ==
    [cs \in {"CS1", "CS2", "CS3"} |->
        CASE cs = "CS1" -> [parent |-> "GC1", min_power |-> Q(0), max_power |-> Q(22)]
          [] cs = "CS2" -> [parent |-> "GC1", min_power |-> Q(3), max_power |-> Q(6)]
          [] cs = "CS3" -> [parent |-> "GC2", min_power |-> Q(0), max_power |-> Q(22)]]

\* vehicle.vehicle_type and the constant fields of vehicle.battery
vehicle_type ==
    [vid \in VehicleIds \cup {"V3"} |->
        CASE vid = "V1" ->
               [capacity |-> Q(1), efficiency |-> Rat(1, 2), min_charging_power |-> Q(0)]
          [] vid = "V2" ->
               [capacity |-> Q(2), efficiency |-> Q(1), min_charging_power |-> Q(2)]
          [] vid = "V3" ->
               [capacity |-> Q(40), efficiency |-> Q(1), min_charging_power |-> Q(0)]]

\* the constant fields of the stationary batteries
battery_type ==
    [b \in BatteryIds |->
        [parent |-> "GC1", capacity |-> Q(8), efficiency |-> Q(1),
         min_charging_power |-> IF b = "B1" THEN Q(1) ELSE Q(0)]]

----------------------------------------------------------------------------
(* Collaborators of the strategy (battery model, vehicle, grid connector). *)

\* Battery.load(interval, target_power): charges at target_power for one
\* interval, but not beyond a full battery; returns avg_power and the new soc
BatteryLoad(soc, capacity, eff, target_power) ==
    LET room == Div(Mul(Mul(Sub(One, soc), capacity), ts_per_hour), eff)
        avg_power == Max(Zero, Min(target_power, room))
    IN  [avg_power |-> avg_power,
         soc |-> Add(soc, Div(Div(Mul(avg_power, eff), ts_per_hour), capacity))]

\* Battery.unload(interval, target_power): discharges at target_power for one
\* interval, but not below an empty battery
BatteryUnload(soc, capacity, eff, target_power) ==
    LET avail == Mul(Mul(Mul(soc, capacity), ts_per_hour), eff)
        avg_power == Max(Zero, Min(target_power, avail))
    IN  [avg_power |-> avg_power,
         soc |-> Sub(soc, Div(Div(Div(avg_power, eff), ts_per_hour), capacity))]

\* Vehicle.get_energy_needed()
get_energy_needed(vid, v) ==
    Div(Mul(Sub(v.desired_soc, v.soc), vehicle_type[vid].capacity),
        vehicle_type[vid].efficiency)

\* GridConnector.get_current_load()
RECURSIVE SumLoads(_, _)
SumLoads(loads, names) ==
    IF names = {} THEN Zero
    ELSE LET n == CHOOSE x \in names : TRUE
         IN  Add(loads[n], SumLoads(loads, names \ {n}))

get_current_load(loads) == SumLoads(loads, DOMAIN loads)

\* GridConnector.add_load(key, value): the updated dict
add_load(loads, key, value) ==
    [n \in DOMAIN loads \cup {key} |->
        IF n = key
        THEN (IF key \in DOMAIN loads THEN Add(loads[key], value) ELSE value)
        ELSE loads[n]]

----------------------------------------------------------------------------
(* src/src/util.py *)

clamp_power(power, vid, cs) ==
    LET p == Min(power, charging_stations[cs].max_power)
    IN  IF Lt(p, charging_stations[cs].min_power)
           \/ Lt(p, vehicle_type[vid].min_charging_power)
        THEN Zero
        ELSE p

----------------------------------------------------------------------------
(* PeakShaving.fast_charge (peak_shaving.py 228-287) *)

\* Python's sorted() on (number, index) tuples: insertion sort, lexicographic
PairLess(a, b) == Lt(a[1], b[1]) \/ (a[1] = b[1] /\ a[2] < b[2])

RECURSIVE InsertPair(_, _)
InsertPair(x, s) ==
    IF s = <<>> THEN <<x>>
    ELSE IF PairLess(x, Head(s)) THEN <<x>> \o s
    ELSE <<Head(s)>> \o InsertPair(x, Tail(s))

RECURSIVE SortPairs(_)
SortPairs(s) == IF s = <<>> THEN <<>> ELSE InsertPair(Head(s), SortPairs(Tail(s)))

\* line 238-239: power_levels of the window [arrival_idx, depart_idx)
PowerLevels(ts, arrival_idx, depart_idx) ==
    SortPairs([j \in 1..(depart_idx - arrival_idx) |->
                  <<ts[arrival_idx + j].cur_power, arrival_idx + j - 1>>])

\* lines 252-258: energy charged when the window is filled up to level `power`
LevelEnergy(ts, arrival_idx, depart_idx, power, eff) ==
    LET p == [j \in 1..(depart_idx - arrival_idx) |->
                 Max(Sub(Min(power, ts[arrival_idx + j].max_power),
                         ts[arrival_idx + j].cur_power), Zero)]
    IN  Div(SumSeq(p), Div(ts_per_hour, eff))

\* lines 262-263: level between prev_power and power that yields energy_needed
Interpolate(prev_power, power, prev_energy, energy, energy_needed) ==
    LET frac == Sub(One, Div(Sub(energy, energy_needed), Sub(energy, prev_energy)))
    IN  Add(prev_power, Mul(frac, Sub(power, prev_power)))

\* line 248 taking only a lower level for the same level
SameLevelBelow(level, prev_power) == Lt(Sub(level, prev_power), Zero)

\* line 248: the level at idx is no higher than the level reached
SameLevel(level, prev_power) == Lt(Sub(level, prev_power), EPS)

\* passes of the while loop of line 247 that are unrolled: two per power level
MaxSweeps(pl) == 2 * Len(pl)

\* lines 247-268: the while loop over the power levels; st is the loop state,
\* with the passes made so far and the divisor of line 262. A loop that is
\* still running after MaxSweeps passes is left as "unfinished", a division by
\* zero as "ZeroDivisionError".
RECURSIVE LevelSweep(_, _, _, _, _, _, _)
LevelSweep(pl, ts, arrival_idx, depart_idx, energy_needed, eff, st) ==
    IF ~(st.idx < Len(pl) /\ Gt(Sub(energy_needed, st.prev_energy), EPS))
    THEN st
    ELSE IF st.iters >= MaxSweeps(pl)
    THEN [st EXCEPT !.how = "unfinished"]
    ELSE IF SameLevel(pl[st.idx + 1][1], st.prev_power)
    THEN LevelSweep(pl, ts, arrival_idx, depart_idx, energy_needed, eff,
                    [st EXCEPT !.idx = @ + 1, !.iters = @ + 1])
    ELSE LET power == pl[st.idx + 1][1]
             energy == LevelEnergy(ts, arrival_idx, depart_idx, power, eff)
         IN  IF Gt(Sub(energy, energy_needed), EPS)
             THEN IF Sub(energy, st.prev_energy) = Zero
                  THEN [st EXCEPT !.iters = @ + 1, !.divisor = Zero,
                                  !.how = "ZeroDivisionError"]
                  ELSE [st EXCEPT !.power = Interpolate(st.prev_power, power,
                                                        st.prev_energy, energy,
                                                        energy_needed),
                                  !.prev_energy = energy_needed,
                                  !.iters = @ + 1,
                                  !.divisor = Sub(energy, st.prev_energy),
                                  !.how = "interpolated"]
             ELSE LevelSweep(pl, ts, arrival_idx, depart_idx, energy_needed, eff,
                             [st EXCEPT !.power = power, !.prev_power = power,
                                        !.prev_energy = energy, !.iters = @ + 1,
                                        !.how = "level"])

\* lines 269-272 without the division by the number of timesteps
ExtrapolateFrontLoaded(st, energy_needed, eff) ==
    IF Gt(Sub(energy_needed, st.prev_energy), EPS)
    THEN [st EXCEPT !.power = Add(st.prev_power,
                                  Div(Mul(Sub(energy_needed, st.prev_energy),
                                          ts_per_hour), eff)),
                    !.how = "extrapolated"]
    ELSE st

\* lines 269-272: the level exceeds the highest power level of the window
Extrapolate(st, energy_needed, eff) ==
    IF ~Gt(Sub(energy_needed, st.prev_energy), EPS) THEN st
    ELSE IF st.idx = 0 THEN [st EXCEPT !.how = "ZeroDivisionError"]
    ELSE [st EXCEPT !.power = Add(st.prev_power,
                                  Div(Div(Mul(Sub(energy_needed, st.prev_energy),
                                              ts_per_hour), Q(st.idx)), eff)),
                    !.how = "extrapolated"]

\* line 279 without the ceiling
RequestedPowerUncapped(opt_power, delta, max_power, cur_power) ==
    Sub(Add(opt_power, delta), cur_power)

\* line 279 with the forecast load added instead of subtracted
RequestedPowerPlusLoad(opt_power, delta, max_power, cur_power) ==
    Add(Min(Add(opt_power, delta), max_power), cur_power)

\* line 279: power requested of the timestep with forecast load cur_power
RequestedPower(opt_power, delta, max_power, cur_power) ==
    Sub(Min(Add(opt_power, delta), max_power), cur_power)

\* line 283 left out: nothing is carried
CarryDeltaDropped(delta, power, avg_power) == delta

\* line 283: shortfall carried to the later timesteps of the window
CarryDelta(delta, power, avg_power) == Add(delta, Sub(power, avg_power))

\* lines 278-286: the charge loop, over the timestep indices `todo` in order
RECURSIVE ChargeLoop(_, _, _, _, _)
ChargeLoop(todo, vid, cs, opt_power, st) ==
    IF todo = <<>> THEN st
    ELSE LET i == Head(todo)
             raw == RequestedPower(opt_power, st.delta, st.ts[i + 1].max_power,
                                   st.before[i + 1])
             power == clamp_power(raw, vid, cs)
             res == BatteryLoad(st.soc, vehicle_type[vid].capacity,
                                vehicle_type[vid].efficiency, power)
         IN  ChargeLoop(Tail(todo), vid, cs, opt_power,
                 [st EXCEPT !.ts[i + 1].cur_power = Add(@, res.avg_power),
                            !.soc = res.soc,
                            !.delta = CarryDelta(st.delta, power, res.avg_power),
                            !.command = IF i = 0 THEN power ELSE @,
                            !.raw[i + 1] = raw,
                            !.power[i + 1] = power,
                            !.avg_power[i + 1] = res.avg_power,
                            !.delta_in[i + 1] = st.delta])

\* line 278: sorted(power_levels[:idx], key=index), as timestep indices
ChargeOrder(pl, idx, arrival_idx, depart_idx) ==
    LET chosen == {pl[j][2] : j \in 1..idx}
    IN  SelectSeq([j \in 1..(depart_idx - arrival_idx) |-> arrival_idx + j - 1],
                  LAMBDA i : i \in chosen)

\* outcomes of lines 247-272 after which fast_charge returns no command
SweepFailed == {"unfinished", "ZeroDivisionError"}

\* fast_charge(v_info, timesteps): the command, the timesteps and the forecast
\* vehicle as the call leaves them, and what the call did per timestep
fast_charge(v_info, ts) ==
    LET vid == v_info.vid
        sim_vehicle == v_info.vehicle
        arrival_idx == v_info.arrival_idx
        depart_idx == v_info.depart_idx[1]
        energy_needed == v_info.energy_needed
        eff == vehicle_type[vid].efficiency
        zeros == [j \in 1..Len(ts) |-> Zero]
        before == [j \in 1..Len(ts) |-> ts[j].cur_power]
        idle == [command |-> Zero, ts |-> ts, soc |-> sim_vehicle.soc, delta |-> Zero,
                 before |-> before, raw |-> zeros, power |-> zeros,
                 avg_power |-> zeros, delta_in |-> zeros,
                 charged |-> {}, opt_power |-> Zero, idx |-> 0, how |-> "none",
                 iters |-> 0, divisor |-> None]
    IN  IF Le(energy_needed, Zero) THEN idle
        ELSE LET pl == PowerLevels(ts, arrival_idx, depart_idx)
                 ls == LevelSweep(pl, ts, arrival_idx, depart_idx, energy_needed, eff,
                                  [idx |-> 0, prev_power |-> pl[1][1],
                                   prev_energy |-> Zero, power |-> Zero,
                                   how |-> "none", iters |-> 0, divisor |-> None])
                 sw == IF ls.how \in SweepFailed THEN ls
                       ELSE Extrapolate(ls, energy_needed, eff)
                 todo == IF sw.how \in SweepFailed THEN <<>>
                         ELSE ChargeOrder(pl, sw.idx, arrival_idx, depart_idx)
                 out == ChargeLoop(todo, vid, sim_vehicle.connected_charging_station,
                                   sw.power, idle)
             IN  [out EXCEPT !.charged = {todo[j] : j \in 1..Len(todo)},
                             !.opt_power = sw.power, !.idx = sw.idx, !.how = sw.how,
                             !.iters = sw.iters, !.divisor = sw.divisor]

----------------------------------------------------------------------------
(* PeakShaving.step_gc, forecast (peak_shaving.py 51-171) *)

VehicleOrder == <<"V1", "V2">>   \* iteration order of world_state.vehicles

\* lines 69-71 and 151-153 with the quotient rounded down
DepartIdxFloor(estimated_time_of_departure, now) ==
    IF estimated_time_of_departure = None THEN None
    ELSE <<(estimated_time_of_departure[1] - now) \div Interval>>

\* lines 69-71 and 151-153: depart_idx of an estimated time of departure
DepartIdx(estimated_time_of_departure, now) ==
    IF estimated_time_of_departure = None THEN None
    ELSE <<-((-(estimated_time_of_departure[1] - now)) \div Interval)>>

\* lines 72-77 and 154-159: a new VehicleArrivalRecord
ArrivalRecord(vid, v, arrival_idx, now) ==
    [vid |-> vid, vehicle |-> v, arrival_idx |-> arrival_idx,
     depart_idx |-> DepartIdx(v.estimated_time_of_departure, now),
     first_depart_idx |-> DepartIdx(v.estimated_time_of_departure, now),
     energy_needed |-> None]

\* lines 61-77: records of the vehicles standing at the connector at step start
RECURSIVE PresentAtStart(_, _, _, _)
PresentAtStart(vids, sim_vehicles, gc, now) ==
    IF vids = <<>> THEN [present |-> << >>, arrivals |-> <<>>]
    ELSE LET vid == Head(vids)
             v == sim_vehicles[vid]
             rest == PresentAtStart(Tail(vids), sim_vehicles, gc, now)
             here == v.connected_charging_station /= NoId
                     /\ charging_stations[v.connected_charging_station].parent = gc
         IN  IF ~here THEN rest
             ELSE [present |-> [x \in {vid} \cup DOMAIN rest.present |->
                                   IF x = vid THEN 0 ELSE rest.present[x] + 1],
                   arrivals |-> <<ArrivalRecord(vid, v, 0, now)>> \o rest.arrivals]

\* lines 87-91 keeping the events that start at the current time
RECURSIVE DropPastBefore(_, _)
DropPastBefore(evs, now) ==
    IF evs /= <<>> /\ Head(evs).start_time < now THEN DropPastBefore(Tail(evs), now)
    ELSE evs

\* lines 87-91: perfect foresight drops the events that already started
RECURSIVE DropPast(_, _)
DropPast(evs, now) ==
    IF evs /= <<>> /\ Head(evs).start_time <= now THEN DropPast(Tail(evs), now)
    ELSE evs

\* line 146 with the assertion switched off
NotStandingUnchecked(vid, present) == TRUE

\* the assertion of line 146
NotStanding(vid, present) == vid \notin DOMAIN present

\* lines 114 and 118 adding the value to the component's load
SetLoadAdding(cur_loads, name, value) ==
    [n \in DOMAIN cur_loads \cup {name} |->
        IF n /= name THEN cur_loads[n]
        ELSE IF n \in DOMAIN cur_loads THEN Add(cur_loads[n], value) ELSE value]

\* lines 114 and 118: cur_loads[event.name] = value
SetLoad(cur_loads, name, value) ==
    [n \in DOMAIN cur_loads \cup {name} |-> IF n = name THEN value ELSE cur_loads[n]]

\* line 126 keeping an estimated depart_idx
CloseRecordKeepingEstimate(arrivals, v_idx, timestep_idx) ==
    IF arrivals[v_idx + 1].depart_idx /= None THEN arrivals
    ELSE [arrivals EXCEPT ![v_idx + 1].depart_idx = <<timestep_idx>>]

\* line 126: vehicle_arrivals[v_idx]["depart_idx"] = timestep_idx
CloseRecord(arrivals, v_idx, timestep_idx) ==
    [arrivals EXCEPT ![v_idx + 1].depart_idx = <<timestep_idx>>]

\* lines 110-159: one event applied to the forecast state st at timestep_idx
ReplayEvent(st, event, timestep_idx, gc, now) ==
    LET seen == [st EXCEPT !.event_idx = @ + 1,
                           !.applied = Append(@, [event |-> event, idx |-> timestep_idx])]
    IN  CASE event.kind = "LocalEnergyGeneration" ->
               IF event.grid_connector_id /= gc THEN seen
               ELSE [seen EXCEPT !.cur_loads = SetLoad(@, event.name, Neg(event.value))]
          [] event.kind = "FixedLoad" ->
               IF event.grid_connector_id /= gc THEN seen
               ELSE [seen EXCEPT !.cur_loads = SetLoad(@, event.name, event.value)]
          [] event.kind = "GridOperatorSignal" ->
               IF event.grid_connector_id /= gc \/ event.max_power = None THEN seen
               ELSE [seen EXCEPT !.max_power = event.max_power]
          [] event.kind = "VehicleEvent" /\ event.event_type = "departure" ->
               LET vid == event.vehicle_id
                   closed == IF vid \in DOMAIN seen.present
                             THEN [seen EXCEPT
                                      !.arrivals =
                                          CloseRecord(@, seen.present[vid], timestep_idx),
                                      !.present = [x \in DOMAIN @ \ {vid} |-> @[x]]]
                             ELSE seen
               IN  [closed EXCEPT !.sim_vehicles[vid].soc =
                                      Max(@, closed.sim_vehicles[vid].desired_soc)]
          [] OTHER ->
               LET cs == event.update.connected_charging_station
                   vid == event.vehicle_id
                   vehicle == [seen.sim_vehicles[vid] EXCEPT
                                  !.desired_soc = event.update.desired_soc,
                                  !.soc = Add(@, event.update.soc_delta),
                                  !.estimated_time_of_departure =
                                      event.update.estimated_time_of_departure,
                                  !.connected_charging_station = cs]
                   moved == [seen EXCEPT !.sim_vehicles[vid] = vehicle]
               IN  IF cs = NoId THEN seen
                   ELSE IF charging_stations[cs].parent /= gc THEN moved
                   ELSE IF ~NotStanding(vid, moved.present)
                   THEN [moved EXCEPT !.failed = TRUE]
                   ELSE [moved EXCEPT
                            !.present = [x \in DOMAIN @ \cup {vid} |->
                                            IF x = vid THEN Len(moved.arrivals) ELSE @[x]],
                            !.arrivals = Append(@, ArrivalRecord(vid, vehicle,
                                                                 timestep_idx, now))]

\* line 107 leaving an event that starts at cur_time for the next timestep
NotThisTimestepYet(event, cur_time) == event.start_time >= cur_time

\* line 107: if event.start_time > cur_time: not this timestep
NotThisTimestep(event, cur_time) == event.start_time > cur_time

\* lines 97-109: the events due at cur_time, in list order
RECURSIVE PeekEvents(_, _, _, _, _, _)
PeekEvents(st, evs, timestep_idx, cur_time, gc, now) ==
    IF st.failed \/ st.event_idx >= Len(evs) THEN st
    ELSE IF NotThisTimestep(evs[st.event_idx + 1], cur_time) THEN st
    ELSE PeekEvents(ReplayEvent(st, evs[st.event_idx + 1], timestep_idx, gc, now),
                    evs, timestep_idx, cur_time, gc, now)

\* lines 93-162: the loop over the timesteps of the horizon
RECURSIVE ForecastLoop(_, _, _, _, _)
ForecastLoop(st, evs, timestep_idx, gc, now) ==
    IF st.failed \/ timestep_idx >= timesteps_ahead THEN st
    ELSE LET cur_time == now + timestep_idx * Interval
             after == PeekEvents(st, evs, timestep_idx, cur_time, gc, now)
             info == [max_power |-> after.max_power,
                      cur_power |-> get_current_load(after.cur_loads),
                      vehicles |-> after.present]
         IN  IF after.failed THEN after
             ELSE ForecastLoop([after EXCEPT !.timesteps = Append(@, info)],
                               evs, timestep_idx + 1, gc, now)

\* line 58 without the deepcopy: the replay works on the world's vehicles
AliasVehicles(world_vehicles, sim_vehicles) == sim_vehicles

\* line 58: sim_vehicles = deepcopy(world_state.vehicles); the world's vehicles
\* as the replay leaves them, given the replay's sim_vehicles
DeepcopyVehicles(world_vehicles, sim_vehicles) == world_vehicles

\* lines 51-162: the forecast of connector gc
Forecast(gc, world_vehicles, connector, evs, now) ==
    LET start == PresentAtStart(VehicleOrder, world_vehicles, gc, now)
    IN  ForecastLoop([sim_vehicles |-> world_vehicles,
                      present |-> start.present,
                      arrivals |-> start.arrivals,
                      max_power |-> connector.cur_max_power,
                      cur_loads |-> connector.current_loads,
                      event_idx |-> 0,
                      timesteps |-> <<>>,
                      failed |-> FALSE,
                      applied |-> <<>>],
                     evs, 0, gc, now)

\* line 171: the sort key of a record with a known depart_idx
StandingTime(v_info) ==
    (IF v_info.depart_idx[1] < timesteps_ahead THEN v_info.depart_idx[1]
     ELSE timesteps_ahead) - v_info.arrival_idx

\* line 167 alone: the records with a known depart_idx, in record order
SortVehiclesUnsorted(arrivals) ==
    SelectSeq([j \in 1..Len(arrivals) |-> j], LAMBDA j : arrivals[j].depart_idx /= None)

\* lines 167-171: `vehicles`, as indices into vehicle_arrivals
SortVehicles(arrivals) ==
    LET known == SelectSeq([j \in 1..Len(arrivals) |-> j],
                           LAMBDA j : arrivals[j].depart_idx /= None)
        keyed == [j \in 1..Len(known) |-> <<Q(StandingTime(arrivals[known[j]])), known[j]>>]
        sorted == SortPairs(keyed)
    IN  [j \in 1..Len(sorted) |-> sorted[j][2]]

\* line 84: cur_loads = deepcopy(gc.current_loads); the connector's loads as the
\* replay leaves them, given the replay's cur_loads
DeepcopyLoads(world_loads, cur_loads) == world_loads

----------------------------------------------------------------------------
(* Scenarios: the world and the event list the strategy is constructed with. *)

MaxEvents == 2

Vehicle(cs, soc, desired_soc, etd) ==
    [connected_charging_station |-> cs, soc |-> soc, desired_soc |-> desired_soc,
     estimated_time_of_departure |-> etd, schedule |-> None]

Event(kind, start_time) ==
    [kind |-> kind, start_time |-> start_time, grid_connector_id |-> NoId,
     name |-> NoId, value |-> None, max_power |-> None, vehicle_id |-> NoId,
     event_type |-> NoId, update |-> None]

Departure(vid, start_time) ==
    [Event("VehicleEvent", start_time) EXCEPT
        !.vehicle_id = vid, !.event_type = "departure"]

Arrival(vid, start_time, cs, desired_soc, soc_delta, etd) ==
    [Event("VehicleEvent", start_time) EXCEPT
        !.vehicle_id = vid, !.event_type = "arrival",
        !.update = [connected_charging_station |-> cs, desired_soc |-> desired_soc,
                    soc_delta |-> soc_delta, estimated_time_of_departure |-> etd]]

Signal(gc, start_time, max_power) ==
    [Event("GridOperatorSignal", start_time) EXCEPT
        !.grid_connector_id = gc, !.max_power = max_power]

Load(kind, gc, name, start_time, value) ==
    [Event(kind, start_time) EXCEPT
        !.grid_connector_id = gc, !.name = name, !.value = value]

\* all_events of __init__ (lines 20-24): vehicle events, then grid operator
\* signals, then fixed loads, then local generation
EventPool ==
    << Departure("V1", 2),
       Arrival("V1", 3, "CS1", One, Rat(-1, 4), <<9>>),
       Arrival("V2", 1, "CS2", One, Zero, <<4>>),
       Departure("V2", 4),
       Arrival("V1", 2, "CS3", One, Zero, None),
       Signal("GC1", 2, Q(4)),
       Signal("GC1", 1, None),
       Load("FixedLoad", "GC1", "load1", 3, Q(6)),
       Load("FixedLoad", "GC1", "load1", 0, Q(9)),
       Load("FixedLoad", "GC2", "load2", 2, Q(7)),
       Load("FixedLoad", "GC1", "load1", 5, Q(8)),
       Load("LocalEnergyGeneration", "GC1", "pv", 1, Q(5)) >>

\* the sub-lists of EventPool with at most MaxEvents events
EventLists ==
    LET picks == {S \in SUBSET (1..Len(EventPool)) : Cardinality(S) <= MaxEvents}
    IN  {SelectSeq([j \in 1..Len(EventPool) |-> j], LAMBDA j : j \in S) : S \in picks}

\* line 36: sorted(all_events, key=start_time), a stable sort
SortEvents(all_events) ==
    LET keyed == [j \in 1..Len(all_events) |-> <<Q(all_events[j].start_time), j>>]
        sorted == SortPairs(keyed)
    IN  [j \in 1..Len(sorted) |-> all_events[sorted[j][2]]]

V1Starts ==
    {Vehicle("CS1", soc, One, etd) :
        soc \in {Zero, Rat(1, 2)}, etd \in {None, <<0>>, <<3>>, <<9>>}}
    \cup {Vehicle("CS3", Zero, One, <<3>>), Vehicle(NoId, Rat(1, 2), Zero, None)}

V2Starts ==
    {Vehicle("CS2", Zero, One, etd) : etd \in {<<4>>, <<9>>}}
    \cup {Vehicle(NoId, Zero, Zero, None)}

StartLoads == {Q(0), Q(2), Q(-4)}

Connector(cur_max_power, loads) ==
    [cur_max_power |-> cur_max_power, current_loads |-> loads]

NoHist ==
    [start_vehicles |-> <<>>, start_connectors |-> <<>>, start_batteries |-> <<>>,
     start_events |-> <<>>, sim_vehicles |-> <<>>, cur_loads |-> <<>>,
     present |-> <<>>,
     base |-> <<>>, records |-> <<>>, applied |-> <<>>, fills |-> <<>>,
     surplus |-> <<>>, balanced |-> <<>>,
     first_vehicles |-> <<>>, first_connectors |-> <<>>, first_events |-> <<>>,
     all_events |-> <<>>, start_time |-> 0, initial_events |-> <<>>]

Init ==
    /\ current_time = 0
    /\ \E v1 \in V1Starts, v2 \in V2Starts :
          vehicles = [vid \in VehicleIds |-> IF vid = "V1" THEN v1 ELSE v2]
    /\ \E l \in StartLoads :
          grid_connectors =
              [g \in {"GC1", "GC2"} |->
                  IF g = "GC1" THEN Connector(Q(10), [n \in {"load1"} |-> l])
                  ELSE Connector(Q(10), [n \in {"load2"} |-> Q(1)])]
    /\ batteries = [b \in BatteryIds |-> [soc |-> Rat(1, 2)]]
    /\ \E picked \in EventLists :
          events = SortEvents([j \in 1..Len(picked) |-> EventPool[picked[j]]])
    /\ pc = "step"
    /\ gc_todo = GridConnectorIds
    /\ gc_id = NoId
    /\ timesteps = <<>>
    /\ vehicle_arrivals = <<>>
    /\ order = <<>>
    /\ v_pos = 0
    /\ gc_commands = <<>>
    /\ commands = <<>>
    /\ hist = NoHist

----------------------------------------------------------------------------
(* PeakShaving.step and step_gc as steps of one call of step() *)

\* lines 49-171: step_gc enters for the next connector and builds the forecast
StepGcForecast ==
    /\ pc = "step"
    /\ gc_todo /= <<>>
    /\ LET gc == Head(gc_todo)
           evs == DropPast(events, current_time)
       IN  \E f \in {Forecast(gc, vehicles, grid_connectors[gc], evs, current_time)} :
           \E vs \in {SortVehicles(f.arrivals)} :
           /\ gc_id' = gc
           /\ gc_todo' = Tail(gc_todo)
           /\ events' = evs
           /\ vehicles' = DeepcopyVehicles(vehicles, f.sim_vehicles)
           /\ grid_connectors' =
                 [grid_connectors EXCEPT
                     ![gc].current_loads = DeepcopyLoads(@, f.cur_loads)]
           /\ timesteps' = f.timesteps
           /\ vehicle_arrivals' = f.arrivals
           /\ order' = IF f.failed THEN <<>> ELSE vs
           /\ v_pos' = 0
           /\ gc_commands' = <<>>
           /\ pc' = IF f.failed THEN "AssertionError"
                    ELSE IF vs = <<>> THEN "balance" ELSE "schedule"
           /\ hist' = [NoHist EXCEPT !.start_vehicles = vehicles,
                                     !.start_connectors = grid_connectors,
                                     !.start_batteries = batteries,
                                     !.start_events = events,
                                     !.sim_vehicles = f.sim_vehicles,
                                     !.cur_loads = f.cur_loads,
                                     !.present = f.present,
                                     !.base = f.timesteps,
                                     !.records = f.arrivals,
                                     !.applied = f.applied,
                                     !.first_vehicles =
                                         IF gc_id = NoId THEN vehicles ELSE hist.first_vehicles,
                                     !.first_connectors =
                                         IF gc_id = NoId THEN grid_connectors
                                         ELSE hist.first_connectors,
                                     !.first_events =
                                         IF gc_id = NoId THEN events ELSE hist.first_events,
                                     !.initial_events =
                                         IF hist.initial_events = <<>> THEN events
                                         ELSE hist.initial_events]
    /\ UNCHANGED <<current_time, batteries, commands>>

\* lines 184-191 with the fraction taken of the whole time to the departure
ScaleToHorizonFromNow(v_info) ==
    LET f == Rat(timesteps_ahead, v_info.depart_idx[1])
    IN  IF v_info.depart_idx[1] > timesteps_ahead
        THEN [v_info EXCEPT
                 !.energy_needed = Mul(get_energy_needed(v_info.vid, v_info.vehicle), f),
                 !.vehicle.desired_soc =
                     Add(v_info.vehicle.soc,
                         Mul(f, Sub(v_info.vehicle.desired_soc, v_info.vehicle.soc))),
                 !.depart_idx = <<timesteps_ahead>>]
        ELSE [v_info EXCEPT
                 !.energy_needed = get_energy_needed(v_info.vid, v_info.vehicle)]

\* lines 184-191: the record of a vehicle that departs after the horizon
ScaleToHorizon(v_info) ==
    LET vid == v_info.vid
        sim_vehicle == v_info.vehicle
        arrival_idx == v_info.arrival_idx
        depart_idx == v_info.depart_idx[1]
        f == Rat(timesteps_ahead - arrival_idx, depart_idx - arrival_idx)
    IN  IF depart_idx > timesteps_ahead
        THEN [v_info EXCEPT
                 !.energy_needed = Mul(get_energy_needed(vid, sim_vehicle), f),
                 !.vehicle.desired_soc =
                     Add(sim_vehicle.soc,
                         Mul(f, Sub(sim_vehicle.desired_soc, sim_vehicle.soc))),
                 !.depart_idx = <<timesteps_ahead>>]
        ELSE [v_info EXCEPT !.energy_needed = get_energy_needed(vid, sim_vehicle)]

\* line 178: the record has no standing time
NoStandingTime(v_info) == v_info.arrival_idx >= v_info.depart_idx[1]

\* lines 174-195: one pass of the loop that adjusts the power curve
Schedule ==
    /\ pc = "schedule"
    /\ v_pos < Len(order)
    /\ LET r == order[v_pos + 1]
           v_info == vehicle_arrivals[r]
       IN  IF NoStandingTime(v_info)
           THEN UNCHANGED <<timesteps, vehicle_arrivals, hist>>
           ELSE \E scaled \in {ScaleToHorizon(v_info)} :
                \E out \in {fast_charge(scaled, timesteps)} :
                /\ timesteps' = out.ts
                /\ vehicle_arrivals' =
                      [vehicle_arrivals EXCEPT
                          ![r] = [scaled EXCEPT !.vehicle.soc = out.soc,
                                                !.vehicle.schedule = out.command]]
                /\ hist' = [hist EXCEPT
                               !.fills = Append(@, [rec |-> r, v_info |-> scaled,
                                                    before |-> timesteps, out |-> out])]
    /\ v_pos' = IF v_pos + 1 = Len(order) THEN 0 ELSE v_pos + 1
    /\ pc' = IF v_pos + 1 = Len(order) THEN "surplus" ELSE "schedule"
    /\ UNCHANGED <<current_time, vehicles, grid_connectors, batteries, events, gc_todo,
                   gc_id, order, gc_commands, commands>>

\* line 199 without the test
NotYetArrivedNever(v_info) == FALSE

\* line 199: only the vehicles standing at the current timestep are charged
NotYetArrived(v_info) == v_info.arrival_idx > 0

\* line 202: the schedule after the surplus of the current timestep is added
WithSurplus(schedule, cur_power) == Sub(schedule, Min(cur_power, Zero))

\* lines 198-207: one pass of the loop that uses the surplus and applies power
Surplus ==
    /\ pc = "surplus"
    /\ v_pos < Len(order)
    /\ LET r == order[v_pos + 1]
           v_info == vehicle_arrivals[r]
           vid == v_info.vid
           sim_vehicle == v_info.vehicle
           schedule == WithSurplus(sim_vehicle.schedule, timesteps[1].cur_power)
           cs == sim_vehicle.connected_charging_station
           res == BatteryLoad(vehicles[vid].soc, vehicle_type[vid].capacity,
                              vehicle_type[vid].efficiency, schedule)
           loads == add_load(grid_connectors[gc_id].current_loads, cs, res.avg_power)
           next_pc == IF v_pos + 1 = Len(order) THEN "balance" ELSE "surplus"
           next_pos == IF v_pos + 1 = Len(order) THEN 0 ELSE v_pos + 1
       IN  IF NotYetArrived(v_info)
           THEN /\ pc' = next_pc
                /\ v_pos' = next_pos
                /\ UNCHANGED <<vehicles, grid_connectors, vehicle_arrivals, gc_commands,
                               hist>>
           ELSE IF sim_vehicle.schedule = None
           THEN \* None -= number: the step ends with a TypeError
                /\ pc' = "TypeError"
                /\ v_pos' = v_pos
                /\ hist' = [hist EXCEPT !.surplus = Append(@, [rec |-> r, error |-> TRUE])]
                /\ UNCHANGED <<vehicles, grid_connectors, vehicle_arrivals, gc_commands>>
           ELSE /\ pc' = next_pc
                /\ v_pos' = next_pos
                /\ vehicle_arrivals' =
                      [vehicle_arrivals EXCEPT ![r].vehicle.schedule = schedule]
                /\ IF Gt(schedule, Zero)
                   THEN /\ vehicles' = [vehicles EXCEPT ![vid].soc = res.soc]
                        /\ grid_connectors' =
                              [grid_connectors EXCEPT ![gc_id].current_loads = loads]
                        /\ gc_commands' =
                              [c \in DOMAIN gc_commands \cup {cs} |->
                                  IF c = cs THEN loads[cs] ELSE gc_commands[c]]
                   ELSE UNCHANGED <<vehicles, grid_connectors, gc_commands>>
                /\ hist' = [hist EXCEPT
                               !.surplus = Append(@,
                                   [rec |-> r, error |-> FALSE,
                                    fill |-> sim_vehicle.schedule,
                                    cur_power |-> timesteps[1].cur_power,
                                    schedule |-> schedule,
                                    avg_power |-> IF Gt(schedule, Zero)
                                                  THEN res.avg_power ELSE Zero])]
    /\ UNCHANGED <<current_time, batteries, events, gc_todo, gc_id, timesteps, order,
                   commands>>

BatteryOrder == <<"B1", "B2">>   \* iteration order of world_state.batteries

\* line 214-215: the horizon average of the consumption
HorizonAverage(ts) ==
    Max(Div(SumSeq([j \in 1..Len(ts) |-> Max(ts[j].cur_power, Zero)]),
            Q(timesteps_ahead)), Zero)

\* line 217 without the live load
DeltaPowerOfAverage(avg_power, cur_load) == avg_power

\* line 217: what the battery should take to bring the load to the average
DeltaPower(avg_power, cur_load) == Sub(avg_power, cur_load)

\* lines 218-224 with a battery that stays idle at the threshold itself
BatteryPowerBeyondThreshold(b, soc, delta_power) ==
    LET t == battery_type[b]
    IN  IF Gt(delta_power, t.min_charging_power)
        THEN LET res == BatteryLoad(soc, t.capacity, t.efficiency, delta_power)
             IN  [bat_power |-> res.avg_power, soc |-> res.soc, mode |-> "charge"]
        ELSE IF Lt(delta_power, Neg(t.min_charging_power))
        THEN LET res == BatteryUnload(soc, t.capacity, t.efficiency, Neg(delta_power))
             IN  [bat_power |-> Neg(res.avg_power), soc |-> res.soc, mode |-> "discharge"]
        ELSE [bat_power |-> Zero, soc |-> soc, mode |-> "idle"]

\* lines 218-224: the power of one battery, given delta_power
BatteryPower(b, soc, delta_power) ==
    LET t == battery_type[b]
    IN  IF Ge(delta_power, t.min_charging_power)
        THEN LET res == BatteryLoad(soc, t.capacity, t.efficiency, delta_power)
             IN  [bat_power |-> res.avg_power, soc |-> res.soc, mode |-> "charge"]
        ELSE IF Le(delta_power, Neg(t.min_charging_power))
        THEN LET res == BatteryUnload(soc, t.capacity, t.efficiency, Neg(delta_power))
             IN  [bat_power |-> Neg(res.avg_power), soc |-> res.soc, mode |-> "discharge"]
        ELSE [bat_power |-> Zero, soc |-> soc, mode |-> "idle"]

\* lines 210-225: the loop over the batteries; st is what the loop changes
RECURSIVE BalanceLoop(_, _, _)
BalanceLoop(bs, gc, st) ==
    IF bs = <<>> THEN st
    ELSE LET b == Head(bs)
             cur_load == get_current_load(st.loads)
             ts == [st.ts EXCEPT ![1].cur_power = cur_load]
             avg_power == HorizonAverage(ts)
             delta_power == DeltaPower(avg_power, cur_load)
             res == BatteryPower(b, st.batteries[b].soc, delta_power)
             loads == add_load(st.loads, b, res.bat_power)
         IN  IF battery_type[b].parent /= gc THEN BalanceLoop(Tail(bs), gc, st)
             ELSE BalanceLoop(Tail(bs), gc,
                     [ts |-> ts,
                      loads |-> loads,
                      batteries |-> [st.batteries EXCEPT ![b].soc = res.soc],
                      log |-> Append(st.log,
                                 [b_id |-> b, load_before |-> cur_load,
                                  avg_power |-> avg_power, delta_power |-> delta_power,
                                  bat_power |-> res.bat_power, mode |-> res.mode,
                                  load_after |-> get_current_load(loads)])])

\* lines 209-225: the batteries of the connector balance the power levels
Balance ==
    /\ pc = "balance"
    /\ \E out \in {BalanceLoop(BatteryOrder, gc_id,
                              [ts |-> timesteps,
                               loads |-> grid_connectors[gc_id].current_loads,
                               batteries |-> batteries, log |-> <<>>])} :
           /\ timesteps' = out.ts
           /\ grid_connectors' = [grid_connectors EXCEPT ![gc_id].current_loads = out.loads]
           /\ batteries' = out.batteries
           /\ hist' = [hist EXCEPT !.balanced = out.log]
    /\ pc' = "return"
    /\ UNCHANGED <<current_time, vehicles, events, gc_todo, gc_id, vehicle_arrivals,
                   order, v_pos, gc_commands, commands>>

\* lines 226 and 46-47: step_gc returns and step() merges its commands
Return ==
    /\ pc = "return"
    /\ commands' = [c \in DOMAIN commands \cup DOMAIN gc_commands |->
                       IF c \in DOMAIN gc_commands THEN gc_commands[c] ELSE commands[c]]
    /\ pc' = IF gc_todo = <<>> THEN "done" ELSE "step"
    /\ UNCHANGED <<current_time, vehicles, grid_connectors, batteries, events, gc_todo,
                   gc_id, timesteps, vehicle_arrivals, order, v_pos, gc_commands, hist>>

Next == StepGcForecast \/ Schedule \/ Surplus \/ Balance \/ Return

Spec == Init /\ [][Next]_vars

----------------------------------------------------------------------------
(* A run of steps: between two calls of step() the driver of the simulation *)
(* moves the time on and applies the events that have become due to the     *)
(* world.                                                                   *)

MaxTime == 2 * Interval

\* one event applied to the world w = [vehicles, grid_connectors]
ApplyToWorld(w, event) ==
    CASE event.kind = "LocalEnergyGeneration" ->
           [w EXCEPT !.grid_connectors[event.grid_connector_id].current_loads =
               [n \in DOMAIN @ \cup {event.name} |->
                   IF n = event.name THEN Neg(event.value) ELSE @[n]]]
      [] event.kind = "FixedLoad" ->
           [w EXCEPT !.grid_connectors[event.grid_connector_id].current_loads =
               [n \in DOMAIN @ \cup {event.name} |->
                   IF n = event.name THEN event.value ELSE @[n]]]
      [] event.kind = "GridOperatorSignal" ->
           IF event.max_power = None THEN w
           ELSE [w EXCEPT !.grid_connectors[event.grid_connector_id].cur_max_power =
                              event.max_power]
      [] event.kind = "VehicleEvent" /\ event.event_type = "departure" ->
           [w EXCEPT !.vehicles[event.vehicle_id].connected_charging_station = NoId]
      [] OTHER ->
           [w EXCEPT !.vehicles[event.vehicle_id] =
               [@ EXCEPT !.desired_soc = event.update.desired_soc,
                         !.soc = Add(@, event.update.soc_delta),
                         !.estimated_time_of_departure =
                             event.update.estimated_time_of_departure,
                         !.connected_charging_station =
                             event.update.connected_charging_station]]

RECURSIVE ApplyAllToWorld(_, _)
ApplyAllToWorld(w, evs) ==
    IF evs = <<>> THEN w ELSE ApplyAllToWorld(ApplyToWorld(w, Head(evs)), Tail(evs))

\* the loads of a connector without those recorded for stations and batteries
\* in the step before
FixedLoadsOf(current_loads) ==
    [n \in DOMAIN current_loads \ (DOMAIN charging_stations \cup BatteryIds) |->
        current_loads[n]]

\* the driver between two calls of step()
Advance ==
    /\ pc = "done"
    /\ current_time + Interval <= MaxTime
    /\ current_time' = current_time + Interval
    /\ LET due == SelectSeq(events, LAMBDA e : e.start_time <= current_time + Interval)
           w == ApplyAllToWorld(
                    [vehicles |-> vehicles,
                     grid_connectors |->
                         [g \in DOMAIN grid_connectors |->
                             [grid_connectors[g] EXCEPT
                                 !.current_loads = FixedLoadsOf(@)]]],
                    due)
       IN  /\ vehicles' = w.vehicles
           /\ grid_connectors' = w.grid_connectors
    /\ pc' = "step"
    /\ gc_todo' = GridConnectorIds
    /\ gc_id' = NoId
    /\ commands' = <<>>
    /\ UNCHANGED <<batteries, events, timesteps, vehicle_arrivals, order, v_pos,
                   gc_commands, hist>>

SpecRun == Init /\ [][Next \/ Advance]_vars

----------------------------------------------------------------------------
(* fast_charge on its own: one call on a forecast and a record drawn from   *)
(* bounded sets, made by the loop of lines 174-195.                         *)

FillLoads == {Q(-4), Q(0), Q(6)}
FillCeilings == {Q(4), Q(10)}
FillSocs == {<<Zero, Rat(1, 1000000)>>, <<Zero, Rat(1, 8)>>, <<Zero, Rat(1, 2)>>, <<Zero, One>>, <<Rat(1, 2), One>>}
FillStations == {<<"V1", "CS1">>, <<"V2", "CS2">>}

InitFill ==
    /\ current_time = 0
    /\ vehicles = [vid \in VehicleIds |-> Vehicle(NoId, Zero, Zero, None)]
    /\ grid_connectors =
          [g \in {"GC1", "GC2"} |-> Connector(Q(10), [n \in {"load1"} |-> Zero])]
    /\ batteries = [b \in BatteryIds |-> [soc |-> Rat(1, 2)]]
    /\ events = <<>>
    /\ pc = "schedule"
    /\ gc_todo = <<>>
    /\ gc_id = "GC1"
    /\ \E at \in FillStations, socs \in FillSocs, arrival_idx \in 0..(H - 1) :
       \E depart_idx \in (arrival_idx + 1)..H :
       \E loads \in [1..H -> FillLoads], ceilings \in [1..H -> FillCeilings] :
          /\ timesteps =
                [j \in 1..H |->
                    [max_power |-> ceilings[j], cur_power |-> loads[j],
                     vehicles |-> IF arrival_idx < j /\ j <= depart_idx
                                  THEN [x \in {at[1]} |-> 0] ELSE << >>]]
          /\ vehicle_arrivals =
                << [ArrivalRecord(at[1], Vehicle(at[2], socs[1], socs[2], None),
                                  arrival_idx, 0)
                       EXCEPT !.depart_idx = <<depart_idx>>] >>
    /\ order = <<1>>
    /\ v_pos = 0
    /\ gc_commands = <<>>
    /\ commands = <<>>
    /\ hist = [NoHist EXCEPT !.base = timesteps, !.records = vehicle_arrivals]

SpecFill == InitFill /\ [][Schedule]_vars

----------------------------------------------------------------------------
(* fast_charge called on a forecast of SpreadSteps quarter-hour timesteps for *)
(* a vehicle at station CS1.                                                *)

SpreadSteps == 4
SpreadLoads == {Q(0), Q(6)}
SpreadCeilings == {Q(100), Q(4)}
SpreadVehicles ==
    {<<"V3", Rat(1, 4)>>, <<"V3", Rat(1, 20)>>, <<"V1", One>>, <<"V1", Rat(1, 2)>>}

InitSpread ==
    /\ current_time = 0
    /\ vehicles = [vid \in VehicleIds |-> Vehicle(NoId, Zero, Zero, None)]
    /\ grid_connectors =
          [g \in {"GC1", "GC2"} |-> Connector(Q(100), [n \in {"load1"} |-> Zero])]
    /\ batteries = [b \in BatteryIds |-> [soc |-> Rat(1, 2)]]
    /\ events = <<>>
    /\ pc = "fast_charge"
    /\ gc_todo = <<>>
    /\ gc_id = "GC1"
    /\ \E v \in SpreadVehicles, arrival_idx \in 0..1 :
       \E depart_idx \in (arrival_idx + 1)..SpreadSteps :
       \E loads \in [1..SpreadSteps -> SpreadLoads],
          ceilings \in [1..SpreadSteps -> SpreadCeilings] :
          /\ timesteps =
                [j \in 1..SpreadSteps |->
                    [max_power |-> ceilings[j], cur_power |-> loads[j],
                     vehicles |-> IF arrival_idx < j /\ j <= depart_idx
                                  THEN [x \in {v[1]} |-> 0] ELSE << >>]]
          /\ vehicle_arrivals =
                << [ArrivalRecord(v[1], Vehicle("CS1", Zero, v[2], None), arrival_idx, 0)
                       EXCEPT !.depart_idx = <<depart_idx>>,
                              !.energy_needed =
                                  get_energy_needed(v[1], Vehicle("CS1", Zero, v[2], None))] >>
    /\ order = <<1>>
    /\ v_pos = 0
    /\ gc_commands = <<>>
    /\ commands = <<>>
    /\ hist = [NoHist EXCEPT !.base = timesteps, !.records = vehicle_arrivals]

\* line 195: sim_vehicle.schedule = self.fast_charge(v_info, timesteps)
FastCharge ==
    /\ pc = "fast_charge"
    /\ \E out \in {fast_charge(vehicle_arrivals[1], timesteps)} :
          /\ timesteps' = out.ts
          /\ vehicle_arrivals' =
                [vehicle_arrivals EXCEPT ![1].vehicle.soc = out.soc,
                                         ![1].vehicle.schedule = out.command]
          /\ hist' = [hist EXCEPT
                         !.fills = Append(@, [rec |-> 1, v_info |-> vehicle_arrivals[1],
                                              before |-> timesteps, out |-> out])]
    /\ pc' = "called"
    /\ UNCHANGED <<current_time, vehicles, grid_connectors, batteries, events, gc_todo,
                   gc_id, order, v_pos, gc_commands, commands>>

SpecSpread == InitSpread /\ [][FastCharge]_vars

----------------------------------------------------------------------------
(* PeakShaving.__init__ on the events of a scenario.  Before the call        *)
(* self.events is the Events object with its four collections, after it the *)
(* sorted list.                                                             *)

\* an event as the scenario gives it: with the time it becomes known
Signalled(event, signal_time) ==
    [f \in DOMAIN event \cup {"signal_time"} |->
        IF f = "signal_time" THEN signal_time ELSE event[f]]

\* <<signal_time, start_time>> of the events of the scenarios
RawTimes ==
    {t \in {0, 2, 4, 12} \X {1, 4, 12} : t[1] <= t[2]}

RawVehicleEvents == {Signalled(Departure("V1", t[2]), t[1]) : t \in RawTimes}
RawSignals == {Signalled(Signal("GC1", t[2], Q(4)), t[1]) : t \in RawTimes}
RawFixedLoads ==
    {Signalled(Load("FixedLoad", "GC1", "load1", t[2], Q(6)), t[1]) : t \in RawTimes}
RawGeneration ==
    {Signalled(Load("LocalEnergyGeneration", "GC1", "pv", t[2], Q(5)), t[1]) :
        t \in RawTimes}

\* the lists of at most n elements of S
UpTo(S, n) == UNION {[1..k -> S] : k \in 0..n}

InitConstruct ==
    /\ current_time \in {0, 3}
    /\ vehicles = [vid \in VehicleIds |-> Vehicle(NoId, Zero, Zero, None)]
    /\ grid_connectors =
          [g \in {"GC1", "GC2"} |-> Connector(Q(10), [n \in {"load1"} |-> Zero])]
    /\ batteries = [b \in BatteryIds |-> [soc |-> Rat(1, 2)]]
    /\ \E ve \in UpTo(RawVehicleEvents, 2), gs \in UpTo(RawSignals, 1),
          fl \in UpTo(RawFixedLoads, 1), lg \in UpTo(RawGeneration, 1) :
          events = [vehicle_events |-> ve, grid_operator_signals |-> gs,
                    fixed_load_lists |-> fl, local_generation_lists |-> lg]
    /\ pc = "init"
    /\ gc_todo = GridConnectorIds
    /\ gc_id = NoId
    /\ timesteps = <<>>
    /\ vehicle_arrivals = <<>>
    /\ order = <<>>
    /\ v_pos = 0
    /\ gc_commands = <<>>
    /\ commands = <<>>
    /\ hist = NoHist

\* lines 20-24: all_events
AllEvents(evs) ==
    evs.vehicle_events \o evs.grid_operator_signals \o evs.fixed_load_lists
        \o evs.local_generation_lists

\* line 30 alone, without "make sure events don't signal before start"
KnownInAdvanceUnclamped(signal_time, event_start_time, start_time) ==
    IF event_start_time - HORIZON < signal_time
    THEN event_start_time - HORIZON ELSE signal_time

\* lines 30-32: the new signal_time of an event
KnownInAdvance(signal_time, event_start_time, start_time) ==
    LET early == IF event_start_time - HORIZON < signal_time
                 THEN event_start_time - HORIZON ELSE signal_time
    IN  IF early < start_time THEN start_time ELSE early

\* lines 19-36: the perfect foresight part of __init__
Construct ==
    /\ pc = "init"
    /\ LET all_events == AllEvents(events)
           known == [j \in 1..Len(all_events) |->
                        [all_events[j] EXCEPT
                            !.signal_time =
                                KnownInAdvance(@, all_events[j].start_time, current_time)]]
       IN  /\ events' = SortEvents(known)
           /\ hist' = [hist EXCEPT !.all_events = all_events,
                                   !.start_time = current_time]
    /\ pc' = "constructed"
    /\ UNCHANGED <<current_time, vehicles, grid_connectors, batteries, gc_todo, gc_id,
                   timesteps, vehicle_arrivals, order, v_pos, gc_commands, commands>>

SpecConstruct == InitConstruct /\ [][Construct]_vars

----------------------------------------------------------------------------
(* Properties of one call of step(): what the definitions below read. *)

Fills == hist.fills
Window(f) == f.v_info.arrival_idx .. (f.v_info.depart_idx[1] - 1)
Parent(cs) == IF cs = NoId THEN NoId ELSE charging_stations[cs].parent
\* the running step_gc call has built its forecast and has not been aborted by it
Forecasted == pc \in {"schedule", "surplus", "balance", "return", "TypeError"}

\* step_gc has been left, by return or by an exception; hist.base, hist.records
\* and hist.applied are written by the forecast and stay as they are until then
StepGcLeft == pc \in {"return", "TypeError", "AssertionError"}
\* the surplus loop has gone over record r and left it a positive schedule
Applied(r) ==
    \E k \in 1..Len(hist.surplus) :
        /\ hist.surplus[k].rec = r
        /\ ~hist.surplus[k].error
        /\ Gt(hist.surplus[k].schedule, Zero)

----------------------------------------------------------------------------
(* C1: no-overshoot *)

\* C1 as stated: the power fast_charge schedules at a timestep of the window
\* (after clamp_power) never exceeds that timestep's max_power, and neither does
\* the schedule of a connected vehicle after the surplus adjustment.
C1_PowerNeverExceedsMaxPower ==
    /\ \A k \in 1..Len(Fills) : \A i \in Window(Fills[k]) :
          Le(Fills[k].out.power[i + 1], Fills[k].before[i + 1].max_power)
    /\ \A k \in 1..Len(hist.surplus) :
          ~hist.surplus[k].error =>
              Le(hist.surplus[k].schedule, hist.base[1].max_power)

\* C1 amended: the scheduled power never exceeds the headroom
\* max(max_power - cur_power, 0) the timestep had before the vehicle was added,
\* so it stays at or below max_power wherever that forecast load is not
\* negative; the schedule after the surplus adjustment stays at or below
\* max_power of timestep 0 when the forecast load of timestep 0 is not negative.
C1_PowerWithinHeadroom ==
    /\ \A k \in 1..Len(Fills) : \A i \in Window(Fills[k]) :
          LET before == Fills[k].before[i + 1]
              power == Fills[k].out.power[i + 1]
          IN  /\ Le(power, Max(Sub(before.max_power, before.cur_power), Zero))
              /\ Ge(before.cur_power, Zero) => Le(power, before.max_power)
    /\ \A k \in 1..Len(hist.surplus) :
          (~hist.surplus[k].error /\ Ge(hist.base[1].cur_power, Zero)) =>
              Le(hist.surplus[k].schedule, hist.base[1].max_power)

\* C1 witness: a fill whose level lies above the ceiling of a timestep with a
\* non-negative load, which it charges with exactly the headroom, and a connected
\* vehicle whose positive schedule has been applied
C1_Witness ==
    /\ \E k \in 1..Len(Fills) : \E i \in Window(Fills[k]) :
          LET before == Fills[k].before[i + 1]
          IN  /\ Ge(before.cur_power, Zero)
              /\ Gt(Fills[k].out.opt_power, before.max_power)
              /\ Gt(Fills[k].out.power[i + 1], Zero)
              /\ Fills[k].out.power[i + 1] = Sub(before.max_power, before.cur_power)
    /\ \E k \in 1..Len(hist.surplus) :
          /\ ~hist.surplus[k].error
          /\ Gt(hist.surplus[k].schedule, Zero)
          /\ Ge(hist.base[1].cur_power, Zero)

----------------------------------------------------------------------------
(* C2: energy conservation *)

\* the energy the call charged: sum of avg_power * efficiency / ts_per_hour
Delivered(f) ==
    Div(Mul(SumSeq([j \in 1..Len(f.out.avg_power) |-> f.out.avg_power[j]]),
            vehicle_type[f.v_info.vid].efficiency), ts_per_hour)

\* no limit binds in the call: no timestep of the window reaches its ceiling
\* (neither its load nor the level it is filled to), clamp_power returns the
\* requested power and the battery model delivers it
NoLimitBinds(f) ==
    \A i \in Window(f) :
        /\ Lt(f.before[i + 1].cur_power, f.before[i + 1].max_power)
        /\ Lt(f.out.ts[i + 1].cur_power, f.before[i + 1].max_power)
        /\ i \in f.out.charged =>
              /\ Lt(Add(f.out.opt_power, f.out.delta_in[i + 1]), f.before[i + 1].max_power)
              /\ f.out.power[i + 1] = f.out.raw[i + 1]
              /\ f.out.avg_power[i + 1] = f.out.power[i + 1]

\* C2 as stated: a call with energy_needed > 0 in which no limit binds charges
\* energy_needed within EPS, whether the level was interpolated or extrapolated.
C2_EnergyConserved ==
    \A k \in 1..Len(Fills) :
        (Gt(Fills[k].v_info.energy_needed, Zero) /\ NoLimitBinds(Fills[k])) =>
            /\ Le(Sub(Delivered(Fills[k]), Fills[k].v_info.energy_needed), EPS)
            /\ Le(Sub(Fills[k].v_info.energy_needed, Delivered(Fills[k])), EPS)

----------------------------------------------------------------------------
(* C3: ordering *)

\* the sort key of the record a fill was made for, as the forecast left it
FillKey(f) == StandingTime(hist.records[f.rec])

\* what the fills before the k-th added to timestep j
AddedBefore(k, j) == SumSeq([m \in 1..(k - 1) |-> Fills[m].out.avg_power[j]])

\* C3: the fill algorithm is called in non-decreasing order of
\* min(depart_idx, H) - arrival_idx; the forecast a call sees is the forecast of
\* the replay plus the power added by the calls before it, all of them for
\* vehicles of shorter or equal standing time; so the call for a vehicle whose
\* standing time is strictly the shortest computes what it computes on the
\* forecast without any other vehicle.
C3_ShortestStandingTimeFirst ==
    \A k \in 1..Len(Fills) :
        /\ \A m \in 1..(k - 1) : FillKey(Fills[m]) <= FillKey(Fills[k])
        /\ \A j \in 1..H :
              /\ Fills[k].before[j].cur_power =
                    Add(hist.base[j].cur_power, AddedBefore(k, j))
              /\ Fills[k].before[j].max_power = hist.base[j].max_power
        /\ (\A m \in 1..Len(Fills) : m /= k => FillKey(Fills[k]) < FillKey(Fills[m]))
              => Fills[k].out = fast_charge(Fills[k].v_info, hist.base)

\* a vehicle standing in [0,2) is filled before a vehicle of an earlier record
\* that stays beyond the horizon, and the second call sees the power of the first
C3_Witness ==
    /\ Len(Fills) = 2
    /\ Fills[1].rec > Fills[2].rec
    /\ Fills[1].v_info.arrival_idx = 0 /\ Fills[1].v_info.depart_idx = <<2>>
    /\ hist.records[Fills[2].rec].arrival_idx = 0
    /\ hist.records[Fills[2].rec].depart_idx[1] > H
    /\ \E j \in 1..H : Gt(Fills[1].out.avg_power[j], Zero)
    /\ \E j \in 1..H : Gt(Fills[2].out.avg_power[j], Zero)
    /\ Fills[2].before /= hist.base

----------------------------------------------------------------------------
(* C4: water-filling monotonicity *)

\* timesteps i and j of the window of f have the same ceiling and i has the
\* lower forecast load before the vehicle is added
LowerLoad(f, i, j) ==
    /\ f.before[i + 1].max_power = f.before[j + 1].max_power
    /\ Lt(f.before[i + 1].cur_power, f.before[j + 1].cur_power)

\* C4 as stated: of two timesteps of the window with equal max_power, the one
\* with the higher cur_power is never assigned more power than the other.
C4_HigherLoadNeverMorePower ==
    \A k \in 1..Len(Fills) : \A i, j \in Window(Fills[k]) :
        LowerLoad(Fills[k], i, j) =>
            Le(Fills[k].out.power[j + 1], Fills[k].out.power[i + 1])

\* C4, amended: of two timesteps of the window with equal max_power, the one
\* with the higher cur_power is never assigned more power than the other,
\* unless a larger shortfall of the battery (delta of line 283) has been
\* carried into it than into the other.
C4_HigherLoadNeverMorePowerWithoutCarry ==
    \A k \in 1..Len(Fills) : \A i, j \in Window(Fills[k]) :
        (/\ LowerLoad(Fills[k], i, j)
         /\ (i \in Fills[k].out.charged /\ j \in Fills[k].out.charged) =>
               Le(Fills[k].out.delta_in[j + 1], Fills[k].out.delta_in[i + 1]))
        => Le(Fills[k].out.power[j + 1], Fills[k].out.power[i + 1])

\* both timesteps are charged, the lower one strictly more, and a shortfall has
\* been carried into both
C4_Witness ==
    \E k \in 1..Len(Fills) : \E i, j \in Window(Fills[k]) :
        /\ LowerLoad(Fills[k], i, j)
        /\ {i, j} \subseteq Fills[k].out.charged
        /\ Gt(Fills[k].out.delta_in[i + 1], Zero)
        /\ Le(Fills[k].out.delta_in[j + 1], Fills[k].out.delta_in[i + 1])
        /\ Gt(Fills[k].out.power[j + 1], Zero)
        /\ Gt(Fills[k].out.power[i + 1], Fills[k].out.power[j + 1])

----------------------------------------------------------------------------
(* C5: horizon truncation *)

\* the record of a fill as the forecast left it, before the loop scaled it
Record(f) == hist.records[f.rec]

\* C5: a record with depart_idx > H is passed to the fill algorithm with
\* energy_needed = get_energy_needed() * (H - arrival_idx) / (depart_idx -
\* arrival_idx), with desired_soc moved the same fraction of the way from soc to
\* desired_soc, and with depart_idx = H; a record with depart_idx <= H is passed
\* with get_energy_needed(), its desired_soc and its depart_idx.
C5_ScaledToHorizon ==
    \A k \in 1..Len(Fills) :
        LET rec == Record(Fills[k])
            got == Fills[k].v_info
            a == rec.arrival_idx
            d == rec.depart_idx[1]
            needed == get_energy_needed(rec.vid, rec.vehicle)
        IN  /\ got.arrival_idx = a
            /\ got.vehicle.soc = rec.vehicle.soc
            /\ IF d > H
               THEN /\ Mul(got.energy_needed, Q(d - a)) = Mul(needed, Q(H - a))
                    /\ Mul(Sub(got.vehicle.desired_soc, rec.vehicle.soc), Q(d - a)) =
                          Mul(Sub(rec.vehicle.desired_soc, rec.vehicle.soc), Q(H - a))
                    /\ got.depart_idx = <<H>>
                    /\ Window(Fills[k]) = a..(H - 1)
               ELSE /\ got.energy_needed = needed
                    /\ got.vehicle.desired_soc = rec.vehicle.desired_soc
                    /\ got.depart_idx = rec.depart_idx

\* a vehicle that arrives within the horizon and departs after it is passed with
\* a positive scaled energy_needed and is charged
C5_Witness ==
    \E k \in 1..Len(Fills) :
        /\ Record(Fills[k]).arrival_idx > 0
        /\ Record(Fills[k]).depart_idx[1] > H
        /\ Gt(Fills[k].v_info.energy_needed, Zero)
        /\ Lt(Fills[k].v_info.energy_needed,
              get_energy_needed(Fills[k].v_info.vid, Record(Fills[k]).vehicle))
        /\ Fills[k].out.charged /= {}

----------------------------------------------------------------------------
(* C6: forecast contract *)

\* the events of the step's event list that lie after the current time
Future == SelectSeq(hist.start_events, LAMBDA e : e.start_time > current_time)

\* the time entry idx of the forecast describes
TimeOf(idx) == current_time + idx * Interval

\* the replayed events that took effect at or before entry idx
AppliedUpTo(idx) == SelectSeq(hist.applied, LAMBDA a : a.idx <= idx)

IsArrivalHere(a) ==
    /\ a.event.kind = "VehicleEvent" /\ a.event.event_type = "arrival"
    /\ Parent(a.event.update.connected_charging_station) = gc_id

IsLoadHere(a) ==
    /\ a.event.kind \in {"FixedLoad", "LocalEnergyGeneration"}
    /\ a.event.grid_connector_id = gc_id

IsSignalHere(a) ==
    /\ a.event.kind = "GridOperatorSignal"
    /\ a.event.grid_connector_id = gc_id /\ a.event.max_power /= None

\* max_power at entry idx: the last signal up to its time, else the connector's
MaxPowerAt(idx) ==
    LET sigs == SelectSeq(AppliedUpTo(idx), IsSignalHere)
    IN  IF sigs = <<>> THEN hist.start_connectors[gc_id].cur_max_power
        ELSE sigs[Len(sigs)].event.max_power

\* the loads at entry idx: per name the last load event up to its time, else
\* the connector's load of that name
LoadsAt(idx) ==
    LET evs == SelectSeq(AppliedUpTo(idx), IsLoadHere)
        start == hist.start_connectors[gc_id].current_loads
        names == DOMAIN start \cup {evs[j].event.name : j \in 1..Len(evs)}
        last(n) == LET of_n == SelectSeq(evs, LAMBDA a : a.event.name = n)
                   IN  IF of_n = <<>> THEN start[n]
                       ELSE IF of_n[Len(of_n)].event.kind = "FixedLoad"
                       THEN of_n[Len(of_n)].event.value
                       ELSE Neg(of_n[Len(of_n)].event.value)
    IN  [n \in names |-> last(n)]

\* d is ceil((estimated_time_of_departure - current_time) / interval), or None
IsCeilOf(d, etd) ==
    IF etd = None THEN d = None
    ELSE /\ d /= None
         /\ d[1] * Interval >= etd[1] - current_time
         /\ (d[1] - 1) * Interval < etd[1] - current_time

\* the vehicles connected at step start to a station of this connector
StandingAtStart ==
    SelectSeq(VehicleOrder, LAMBDA vid :
        Parent(hist.start_vehicles[vid].connected_charging_station) = gc_id)

\* C6: a completed forecast has exactly H = int(HORIZON / interval) entries,
\* entry i holding the ceiling and the load as of time current_time + i *
\* interval; it has exactly one record per standing interval at the connector:
\* one with arrival_idx 0 per vehicle connected at step start to one of its
\* stations, one with arrival_idx i per arrival event at one of its stations
\* replayed at entry i; the first depart_idx of a record is
\* ceil((estimated_time_of_departure - current_time) / interval) or None; no
\* record is for a vehicle at a station of another connector.
C6_ForecastContract ==
    Forecasted =>
        LET arrs == SelectSeq(hist.applied, IsArrivalHere)
            recs == hist.records
            n0 == Len(StandingAtStart)
        IN  /\ Len(hist.base) = H
            /\ H * Interval <= HORIZON /\ HORIZON < (H + 1) * Interval
            /\ Len(hist.applied) =
                  Len(SelectSeq(Future, LAMBDA e : e.start_time <= TimeOf(H - 1)))
            /\ \A j \in 1..Len(hist.applied) :
                  /\ hist.applied[j].event = Future[j]
                  /\ TimeOf(hist.applied[j].idx - 1) < Future[j].start_time
                  /\ Future[j].start_time <= TimeOf(hist.applied[j].idx)
            /\ \A j \in 1..H :
                  /\ hist.base[j].max_power = MaxPowerAt(j - 1)
                  /\ hist.base[j].cur_power = get_current_load(LoadsAt(j - 1))
                  /\ \A vid \in DOMAIN hist.base[j].vehicles :
                        /\ recs[hist.base[j].vehicles[vid] + 1].vid = vid
                        /\ recs[hist.base[j].vehicles[vid] + 1].arrival_idx <= j - 1
            /\ Len(recs) = n0 + Len(arrs)
            /\ \A j \in 1..n0 :
                  /\ recs[j].vid = StandingAtStart[j]
                  /\ recs[j].arrival_idx = 0
                  /\ IsCeilOf(recs[j].first_depart_idx,
                              hist.start_vehicles[recs[j].vid].estimated_time_of_departure)
            /\ \A j \in 1..Len(arrs) :
                  /\ recs[n0 + j].vid = arrs[j].event.vehicle_id
                  /\ recs[n0 + j].arrival_idx = arrs[j].idx
                  /\ IsCeilOf(recs[n0 + j].first_depart_idx,
                              arrs[j].event.update.estimated_time_of_departure)
            /\ \A j \in 1..Len(recs) :
                  Parent(recs[j].vehicle.connected_charging_station) = gc_id

\* a forecast with a record of a vehicle connected at step start, a record of
\* an arrival replayed later, both with a departure estimate that is not a
\* multiple of the interval, and an arrival at a station of another connector
C6_Witness ==
    /\ Forecasted
    /\ \E j, k \in 1..Len(hist.records) :
          /\ hist.records[j].arrival_idx = 0
          /\ hist.records[k].arrival_idx > 0
          /\ hist.records[j].first_depart_idx /= None
          /\ hist.records[k].first_depart_idx /= None
          /\ hist.records[j].vehicle.estimated_time_of_departure[1] % Interval /= 0
          /\ hist.records[k].vehicle.estimated_time_of_departure[1] % Interval /= 0
    /\ \E j \in 1..Len(hist.applied) :
          /\ hist.applied[j].event.kind = "VehicleEvent"
          /\ hist.applied[j].event.event_type = "arrival"
          /\ ~IsArrivalHere(hist.applied[j])

----------------------------------------------------------------------------
(* C7: current-step-only output *)

\* the passes of the surplus loop that applied a positive schedule
Charging == {k \in 1..Len(hist.surplus) :
                ~hist.surplus[k].error /\ Gt(hist.surplus[k].schedule, Zero)}

StationOf(r) == hist.records[r].vehicle.connected_charging_station

StartLoad(c) ==
    IF c \in DOMAIN hist.start_connectors[gc_id].current_loads
    THEN hist.start_connectors[gc_id].current_loads[c] ELSE Zero

\* C7: the commands of step_gc have an entry only for the station of a record
\* with arrival_idx = 0, a known depart_idx and a positive final schedule, its
\* value being what add_load returned for the station, and step() returns these
\* entries; a record with arrival_idx > 0 is never applied: it gets no command,
\* charges no real battery and causes no add_load.
C7_CommandsOnlyForCurrentStep ==
    gc_id /= NoId =>
        /\ \A k \in 1..Len(hist.surplus) :
              /\ hist.records[hist.surplus[k].rec].arrival_idx = 0
              /\ hist.records[hist.surplus[k].rec].depart_idx /= None
        /\ \A c \in DOMAIN gc_commands :
              \E k \in Charging :
                 /\ StationOf(hist.surplus[k].rec) = c
                 /\ gc_commands[c] = Add(StartLoad(c), hist.surplus[k].avg_power)
                 /\ gc_commands[c] = grid_connectors[gc_id].current_loads[c]
        /\ \A k \in Charging : StationOf(hist.surplus[k].rec) \in DOMAIN gc_commands
        /\ pc = "return" =>
              \A j \in 1..Len(order) :
                 (/\ vehicle_arrivals[order[j]].arrival_idx = 0
                  /\ Gt(vehicle_arrivals[order[j]].vehicle.schedule, Zero))
                 => StationOf(order[j]) \in DOMAIN gc_commands
        /\ \A vid \in VehicleIds :
              vehicles[vid].soc /= hist.start_vehicles[vid].soc =>
                 \E k \in Charging : hist.records[hist.surplus[k].rec].vid = vid
        /\ DOMAIN grid_connectors[gc_id].current_loads
              \subseteq DOMAIN hist.start_connectors[gc_id].current_loads
                        \cup DOMAIN gc_commands \cup BatteryIds
        /\ pc \in {"step", "done"} =>
              /\ \A c \in DOMAIN gc_commands :
                    c \in DOMAIN commands /\ commands[c] = gc_commands[c]
              /\ \A c \in DOMAIN commands : Parent(c) = gc_id => c \in DOMAIN gc_commands

\* step_gc returns a command for a standing vehicle, and none for a vehicle
\* that arrives later, whose planned power is in the forecast of a later
\* timestep and whose real battery is as it was
C7_Witness ==
    /\ pc = "return"
    /\ DOMAIN gc_commands /= {}
    /\ \E k \in 1..Len(Fills) :
          /\ Record(Fills[k]).arrival_idx > 0
          /\ \E j \in 2..H : Gt(Fills[k].out.avg_power[j], Zero)
          /\ \E j \in 2..H : Gt(timesteps[j].cur_power, hist.base[j].cur_power)
          /\ StationOf(Fills[k].rec) \notin DOMAIN gc_commands
          /\ vehicles[Fills[k].v_info.vid].soc =
                hist.start_vehicles[Fills[k].v_info.vid].soc

----------------------------------------------------------------------------
(* C8: forecast isolation *)

\* nothing of the world has been applied yet in the current step_gc: the replay
\* and the fill loop have run, or the replay has aborted
OnlyForecastSoFar ==
    \/ pc \in {"schedule", "AssertionError"}
    \/ pc \in {"surplus", "balance", "TypeError"} /\ Charging = {}

\* the soc the real battery of vid has after the passes in Charging
ChargedSoc(vid) ==
    LET ks == {k \in Charging : hist.records[hist.surplus[k].rec].vid = vid}
        k == CHOOSE x \in ks : TRUE
    IN  IF ks = {} THEN hist.start_vehicles[vid].soc
        ELSE BatteryLoad(hist.start_vehicles[vid].soc, vehicle_type[vid].capacity,
                         vehicle_type[vid].efficiency, hist.surplus[k].schedule).soc

\* C8: the replay of the events and the fill algorithm leave the world as it
\* was at the start of step_gc. Within step_gc the world changes only by the
\* charge of the real battery of a standing vehicle with a positive schedule,
\* by add_load for its station and for the connector's batteries, and by
\* load/unload of the connector's batteries.
C8_ForecastIsolation ==
    (gc_id /= NoId /\ pc /= "step" /\ pc /= "done") =>
        /\ OnlyForecastSoFar =>
              /\ vehicles = hist.start_vehicles
              /\ grid_connectors = hist.start_connectors
              /\ batteries = hist.start_batteries
        /\ \A vid \in VehicleIds :
              vehicles[vid] = [hist.start_vehicles[vid] EXCEPT !.soc = ChargedSoc(vid)]
        /\ \A g \in DOMAIN grid_connectors :
              /\ grid_connectors[g].cur_max_power = hist.start_connectors[g].cur_max_power
              /\ g /= gc_id => grid_connectors[g] = hist.start_connectors[g]
              /\ \A n \in DOMAIN hist.start_connectors[g].current_loads :
                    /\ n \in DOMAIN grid_connectors[g].current_loads
                    /\ grid_connectors[g].current_loads[n] =
                          hist.start_connectors[g].current_loads[n]
        /\ DOMAIN grid_connectors[gc_id].current_loads
              \subseteq DOMAIN hist.start_connectors[gc_id].current_loads
                        \cup {StationOf(hist.surplus[k].rec) : k \in Charging}
                        \cup {b \in BatteryIds : battery_type[b].parent = gc_id}
        /\ \A b \in BatteryIds :
              (battery_type[b].parent /= gc_id \/ pc /= "return") =>
                 batteries[b] = hist.start_batteries[b]

\* the replay topped a departing vehicle's copy off and changed the copy of the
\* loads, a vehicle has been filled, and the world is as at the start
C8_Witness ==
    /\ pc = "surplus" /\ hist.surplus = <<>>
    /\ \E vid \in VehicleIds :
          /\ hist.sim_vehicles[vid].soc = hist.sim_vehicles[vid].desired_soc
          /\ Gt(hist.sim_vehicles[vid].soc, hist.start_vehicles[vid].soc)
    /\ hist.cur_loads /= hist.start_connectors[gc_id].current_loads
    /\ \E k \in 1..Len(Fills) : Fills[k].out.charged /= {}
    /\ vehicles = hist.start_vehicles
    /\ grid_connectors = hist.start_connectors

----------------------------------------------------------------------------
(* C9: double arrival *)

\* the replayed event at position pos of the replay is a departure of vid
IsDepartureOf(pos, vid) ==
    /\ hist.applied[pos].event.kind = "VehicleEvent"
    /\ hist.applied[pos].event.event_type = "departure"
    /\ hist.applied[pos].event.vehicle_id = vid

\* the positions before pos at which a record of vid was opened; 0 is the step
\* start
OpenedBefore(pos, vid) ==
    {m \in 0..(pos - 1) :
        IF m = 0 THEN \E j \in 1..Len(StandingAtStart) : StandingAtStart[j] = vid
        ELSE IsArrivalHere(hist.applied[m]) /\ hist.applied[m].event.vehicle_id = vid}

\* vid has an open record when the replay reaches position pos
OpenAt(pos, vid) ==
    \E m \in OpenedBefore(pos, vid) :
        \A x \in (m + 1)..(pos - 1) : ~IsDepartureOf(x, vid)

\* the replay reaches, at position pos, an arrival at this connector of a
\* vehicle with an open record
DoubleArrival(pos) ==
    /\ IsArrivalHere(hist.applied[pos])
    /\ OpenAt(pos, hist.applied[pos].event.vehicle_id)

\* C9: the replay aborts with an assertion failure exactly when it reaches an
\* arrival at a station of this connector of a vehicle with an open record at
\* this connector; then no second record has been appended, the open record is
\* as it was, no command exists and the world is as at the start of step_gc.
C9_DoubleArrivalFailsLoudly ==
    (gc_id /= NoId /\ pc /= "step" /\ pc /= "done") =>
        /\ \A pos \in 1..Len(hist.applied) :
              DoubleArrival(pos) => pc = "AssertionError" /\ pos = Len(hist.applied)
        /\ pc = "AssertionError" =>
              LET last == hist.applied[Len(hist.applied)]
                  vid == last.event.vehicle_id
                  open == hist.records[hist.present[vid] + 1]
              IN  /\ Len(hist.applied) > 0
                  /\ DoubleArrival(Len(hist.applied))
                  /\ vid \in DOMAIN hist.present
                  /\ Len(hist.records) = Len(StandingAtStart)
                        + Len(SelectSeq(hist.applied, IsArrivalHere)) - 1
                  /\ open.vid = vid
                  /\ open.depart_idx = open.first_depart_idx
                  /\ open.arrival_idx <= last.idx
                  /\ open.arrival_idx = 0 => open.vehicle = hist.start_vehicles[vid]
                  /\ open.arrival_idx > 0 =>
                        \E m \in 1..(Len(hist.applied) - 1) :
                           /\ IsArrivalHere(hist.applied[m])
                           /\ hist.applied[m].event.vehicle_id = vid
                           /\ hist.applied[m].idx = open.arrival_idx
                           /\ open.vehicle.estimated_time_of_departure =
                                 hist.applied[m].event.update.estimated_time_of_departure
                           /\ open.vehicle.desired_soc =
                                 hist.applied[m].event.update.desired_soc
                  /\ gc_commands = <<>>
                  /\ vehicles = hist.start_vehicles
                  /\ grid_connectors = hist.start_connectors
                  /\ batteries = hist.start_batteries

\* step_gc has aborted at the arrival of a vehicle that was connected at the
\* step start, after another event had been replayed
C9_Witness ==
    /\ pc = "AssertionError"
    /\ Len(hist.applied) >= 2
    /\ hist.records[hist.present[hist.applied[Len(hist.applied)].event.vehicle_id] + 1]
          .arrival_idx = 0

----------------------------------------------------------------------------
(* C10: silent exclusion *)

\* the record has no departure estimate or no standing time
Excluded(rec) ==
    rec.depart_idx = None \/ rec.arrival_idx >= rec.depart_idx[1]

\* C10 as stated: a record whose depart_idx is None or whose arrival_idx >=
\* depart_idx is never passed to the fill algorithm, adds nothing to the
\* forecast, produces no command, no add_load and no charge of the real
\* battery, and the step completes without error, also for a vehicle connected
\* at step start whose estimated departure is not after the current time.
C10_SilentExclusion ==
    (gc_id /= NoId /\ pc /= "step" /\ pc /= "done" /\ pc /= "AssertionError") =>
        \A r \in 1..Len(hist.records) :
            Excluded(hist.records[r]) =>
                /\ \A k \in 1..Len(Fills) : Fills[k].rec /= r
                /\ vehicle_arrivals[r] = hist.records[r]
                /\ \A k \in 1..Len(hist.surplus) :
                      hist.surplus[k].rec = r =>
                         ~hist.surplus[k].error /\ ~Gt(hist.surplus[k].schedule, Zero)
                /\ pc /= "TypeError"

----------------------------------------------------------------------------
(* C11: battery balancing idempotence *)

\* the passes of the battery loop of the current step_gc
Balanced == hist.balanced

\* C11: when the live load of the connector equals the horizon average of
\* max(cur_power, 0), taken with the live load at index 0, the power recorded
\* for the battery is 0 and the total load of the connector is unchanged, for a
\* battery with min_charging_power 1 as for one with min_charging_power 0.
C11_BalancedLoadStaysPut ==
    \A k \in 1..Len(Balanced) :
        Balanced[k].load_before = Balanced[k].avg_power =>
            /\ Balanced[k].bat_power = Zero
            /\ Balanced[k].load_after = Balanced[k].load_before
            /\ pc = "return" =>
                  /\ Balanced[k].b_id \in DOMAIN grid_connectors[gc_id].current_loads
                  /\ k = Len(Balanced) =>
                        get_current_load(grid_connectors[gc_id].current_loads) =
                           Balanced[k].load_before

\* a positive load that equals its horizon average reaches a battery with a
\* positive threshold, which idles, and one with threshold 0, which is charged
\* with power 0
C11_Witness ==
    /\ pc = "return"
    /\ \E j, k \in 1..Len(Balanced) :
          /\ Gt(Balanced[j].load_before, Zero)
          /\ Balanced[j].load_before = Balanced[j].avg_power
          /\ Gt(battery_type[Balanced[j].b_id].min_charging_power, Zero)
          /\ Balanced[j].mode = "idle"
          /\ Balanced[k].load_before = Balanced[k].avg_power
          /\ battery_type[Balanced[k].b_id].min_charging_power = Zero
          /\ Balanced[k].mode = "charge"
          /\ Balanced[k].bat_power = Zero

----------------------------------------------------------------------------
(* C12: grid connector non-interference *)

\* the forecast of the current connector built from the world as it was when
\* step() was called, before any other connector was processed
ForecastAlone ==
    Forecast(gc_id, hist.first_vehicles, hist.first_connectors[gc_id],
             DropPast(hist.first_events, current_time), current_time)

\* the loop of lines 174-195 run on the records `arrivals` and the forecast ts
RECURSIVE FillAll(_, _, _, _)
FillAll(vs, pos, ts, arrivals) ==
    IF pos > Len(vs) THEN [ts |-> ts, arrivals |-> arrivals]
    ELSE IF NoStandingTime(arrivals[vs[pos]])
    THEN FillAll(vs, pos + 1, ts, arrivals)
    ELSE LET scaled == ScaleToHorizon(arrivals[vs[pos]])
             out == fast_charge(scaled, ts)
         IN  FillAll(vs, pos + 1, out.ts,
                     [arrivals EXCEPT ![vs[pos]] =
                         [scaled EXCEPT !.vehicle.soc = out.soc,
                                        !.vehicle.schedule = out.command]])

\* the loop of lines 198-207 run on the filled records: the commands
RECURSIVE CommandsOf(_, _, _, _, _, _)
CommandsOf(vs, pos, filled, world_vehicles, loads, cmds) ==
    IF pos > Len(vs) THEN cmds
    ELSE LET v_info == filled.arrivals[vs[pos]]
             cs == v_info.vehicle.connected_charging_station
             schedule == WithSurplus(v_info.vehicle.schedule, filled.ts[1].cur_power)
             res == BatteryLoad(world_vehicles[v_info.vid].soc,
                                vehicle_type[v_info.vid].capacity,
                                vehicle_type[v_info.vid].efficiency, schedule)
             after == add_load(loads, cs, res.avg_power)
         IN  IF NotYetArrived(v_info) \/ ~Gt(schedule, Zero)
             THEN CommandsOf(vs, pos + 1, filled, world_vehicles, loads, cmds)
             ELSE CommandsOf(vs, pos + 1, filled, world_vehicles, after,
                             [c \in DOMAIN cmds \cup {cs} |->
                                 IF c = cs THEN after[cs] ELSE cmds[c]])

\* the commands step_gc returns for the forecast f, the vehicles and the loads
CommandsAlone(f) ==
    LET vs == SortVehicles(f.arrivals)
    IN  CommandsOf(vs, 1, FillAll(vs, 1, f.timesteps, f.arrivals), hist.first_vehicles,
                   hist.first_connectors[gc_id].current_loads, << >>)

\* vid was charged at a connector processed earlier in this step
ChargedEarlier(vid) ==
    hist.first_vehicles[vid].connected_charging_station \in DOMAIN commands

\* C12 as stated: the forecast of a connector (timesteps and records, with
\* each record's vehicle soc) and its commands are the same whatever connectors
\* were processed before it in the same step.
C12_SameForecastWhateverCameBefore ==
    (Forecasted /\ StepGcLeft) =>
        \A alone \in {ForecastAlone} :
            /\ hist.base = alone.timesteps
            /\ hist.records = alone.arrivals
            /\ pc = "return" => gc_commands = CommandsAlone(alone)

\* C12, amended: the timesteps of a connector's forecast and the vid,
\* arrival_idx, depart_idx and vehicle data other than soc of its records are
\* the same whatever connectors were processed before it; the records' soc and
\* the commands are the same too, unless a vehicle with a record was charged at
\* a connector processed earlier in the step.
C12_SameForecastUnlessChargedEarlier ==
    (Forecasted /\ StepGcLeft) =>
        \A alone \in {ForecastAlone} :
            /\ hist.base = alone.timesteps
            /\ Len(hist.records) = Len(alone.arrivals)
            /\ \A j \in 1..Len(hist.records) :
                  /\ hist.records[j] =
                        [alone.arrivals[j] EXCEPT
                            !.vehicle.soc = hist.records[j].vehicle.soc]
                  /\ ~ChargedEarlier(hist.records[j].vid) =>
                        hist.records[j] = alone.arrivals[j]
            /\ (pc = "return" /\ hist.records = alone.arrivals) =>
                  gc_commands = CommandsAlone(alone)

\* the second connector has been processed after a vehicle was charged at the
\* first; it has a record of another arrival and returns a command
C12_Witness ==
    /\ pc = "return"
    /\ DOMAIN commands /= {}
    /\ hist.start_vehicles /= hist.first_vehicles
    /\ hist.records /= <<>>
    /\ \A j \in 1..Len(hist.records) : ~ChargedEarlier(hist.records[j].vid)
    /\ DOMAIN gc_commands /= {}

----------------------------------------------------------------------------
(* C13: even spread *)

\* all timesteps of the window of f have the same forecast load and ceiling
UniformWindow(f) ==
    \A i, j \in Window(f) :
        /\ f.before[i + 1].cur_power = f.before[j + 1].cur_power
        /\ f.before[i + 1].max_power = f.before[j + 1].max_power

\* C13: a vehicle that needs energy over a window whose timesteps all have the
\* same load and the same ceiling, and whose battery takes what is requested,
\* is assigned the same power at every timestep of the window, the command of
\* the current step is that power, and when no limit binds the powers add up
\* to energy_needed; so 10 kWh over 4 quarter-hour timesteps with no load
\* under a ceiling of 100 kW are 10 kW at each timestep.
C13_EvenSpread ==
    \A k \in 1..Len(Fills) :
        LET f == Fills[k]
        IN  (/\ Gt(f.v_info.energy_needed, Zero)
             /\ UniformWindow(f)
             /\ \A i \in Window(f) : f.out.avg_power[i + 1] = f.out.power[i + 1])
            => /\ f.out.charged = Window(f)
               /\ \A i, j \in Window(f) : f.out.power[i + 1] = f.out.power[j + 1]
               /\ f.v_info.arrival_idx = 0 => f.out.command = f.out.power[1]
               /\ f.v_info.arrival_idx > 0 => f.out.command = Zero
               /\ NoLimitBinds(f) => Delivered(f) = f.v_info.energy_needed

\* the scenario: no load, ceiling 100 kW, 10 kWh over timesteps 0..3
C13_Witness ==
    \E k \in 1..Len(Fills) :
        /\ Len(Fills[k].before) = 4
        /\ \A j \in 1..4 : /\ Fills[k].before[j].cur_power = Zero
                           /\ Fills[k].before[j].max_power = Q(100)
                           /\ Fills[k].out.power[j] = Q(10)
                           /\ Fills[k].out.avg_power[j] = Q(10)
        /\ Fills[k].v_info.arrival_idx = 0 /\ Fills[k].v_info.depart_idx = <<4>>
        /\ Fills[k].v_info.energy_needed = Q(10)
        /\ ts_per_hour = Q(4)
        /\ Fills[k].out.command = Q(10)

----------------------------------------------------------------------------
(* C14: perfect foresight preprocessing *)

\* an event without the time it becomes known
Unsignalled(event) == [f \in DOMAIN event \ {"signal_time"} |-> event[f]]

\* how often the event occurs in the list evs, whatever its signal_time
Occurrences(event, evs) ==
    Cardinality({j \in 1..Len(evs) : Unsignalled(evs[j]) = Unsignalled(event)})

KnownAheadOrAtStart ==
    \A j \in 1..Len(events) :
        LET ahead == events[j].start_time - HORIZON
        IN  /\ events[j].signal_time <=
                  (IF ahead < hist.start_time THEN hist.start_time ELSE ahead)
            /\ events[j].signal_time >= hist.start_time

AllEventsSorted ==
    /\ Len(events) = Len(hist.all_events)
    /\ \A j \in 1..Len(events) :
          Occurrences(events[j], events) = Occurrences(events[j], hist.all_events)
    /\ \A j \in 1..(Len(events) - 1) : events[j].start_time <= events[j + 1].start_time

\* every event is known no later than it starts
C14_PreprocessingKeepsDataModel ==
    pc = "constructed" =>
        /\ KnownAheadOrAtStart
        /\ AllEventsSorted
        /\ \A j \in 1..Len(events) : events[j].signal_time <= events[j].start_time

\* C14: after __init__ every event is known one HORIZON before it starts or at
\* the simulation start, whichever is later, and never before the simulation
\* start; signal_time <= start_time holds for every event that does not start
\* before the simulation start, while an event that starts before it is known
\* at the simulation start, after its own start; the list holds all vehicle,
\* grid operator, fixed load and generation events in ascending start_time.
C14_PreprocessingOfEventsFromStart ==
    pc = "constructed" =>
        /\ KnownAheadOrAtStart
        /\ AllEventsSorted
        /\ \A j \in 1..Len(events) :
              IF events[j].start_time >= hist.start_time
              THEN events[j].signal_time <= events[j].start_time
              ELSE events[j].signal_time = hist.start_time

\* an event signalled earlier, one clamped to the start and events of two
\* collections out of start_time order
C14_Witness ==
    /\ pc = "constructed"
    /\ hist.start_time = 3
    /\ Len(events) = 3
    /\ \E j \in 1..3 :
          \E k \in 1..3 :
              /\ Unsignalled(events[j]) = Unsignalled(hist.all_events[k])
              /\ events[j].signal_time = 5
              /\ hist.all_events[k].signal_time = 12
    /\ \E j \in 1..3 : events[j].start_time = 4 /\ events[j].signal_time = 3
    /\ hist.all_events[1].start_time > hist.all_events[2].start_time

----------------------------------------------------------------------------
(* C15: single-pass event replay *)

\* the events of the step's list that start within the forecast
Due ==
    SelectSeq(hist.start_events,
              LAMBDA e : current_time < e.start_time /\ e.start_time <= TimeOf(H - 1))

\* C15: within one step_gc call the replay takes the events of the list that
\* start after current_time in list order, each once, never going back: every
\* replayed event is replayed at the smallest index whose time is not before
\* its start_time; a completed forecast has replayed exactly the events with
\* current_time < start_time <= current_time + (H-1) * interval, so none that
\* starts beyond the last timestep.
C15_SinglePassReplay ==
    (gc_id /= NoId /\ StepGcLeft) =>
        /\ Len(hist.applied) <= Len(Due)
        /\ \A j \in 1..Len(hist.applied) :
              /\ hist.applied[j].event = Due[j]
              /\ hist.applied[j].idx \in 0..(H - 1)
              /\ TimeOf(hist.applied[j].idx) >= Due[j].start_time
              /\ \A i \in 0..(hist.applied[j].idx - 1) : TimeOf(i) < Due[j].start_time
              /\ \A k \in 1..j : hist.applied[k].idx <= hist.applied[j].idx
        /\ Forecasted => Len(hist.applied) = Len(Due)

\* of two events the one at an odd time is replayed at the next timestep, the
\* one beyond the horizon is not replayed
C15_Witness ==
    /\ Forecasted
    /\ Len(hist.start_events) = 2
    /\ Len(hist.applied) = 1
    /\ hist.applied[1].event.start_time = 3 /\ hist.applied[1].idx = 2
    /\ hist.start_events[2].start_time > TimeOf(H - 1)

----------------------------------------------------------------------------
(* C16: discard of past events *)

\* C16: in every step of a run, once step_gc has discarded the past events
\* the event list is the initial list without the events that start at or
\* before current_time, in ascending start_time; no event that starts at or
\* before current_time is replayed into a forecast; the discard of a further
\* connector of the same step removes nothing.
C16_PastEventsDiscarded ==
    gc_id /= NoId =>
        /\ events = SelectSeq(hist.initial_events, LAMBDA e : e.start_time > current_time)
        /\ \A j \in 1..(Len(events) - 1) : events[j].start_time <= events[j + 1].start_time
        /\ \A j \in 1..Len(hist.applied) :
              /\ hist.applied[j].event.start_time > current_time
              /\ \E k \in 1..Len(events) : events[k] = hist.applied[j].event
        /\ gc_id /= GridConnectorIds[1] => events = hist.start_events

\* a later step whose first discard removed an event and kept another, which
\* the further connector finds unchanged
C16_Witness ==
    /\ current_time > 0
    /\ gc_id = GridConnectorIds[2]
    /\ Len(hist.first_events) = 2
    /\ Len(events) = 1
    /\ hist.first_events[1].start_time > 0
    /\ hist.initial_events = hist.first_events

----------------------------------------------------------------------------
(* C17: the latest value wins *)

\* the replayed event changes neither the ceiling nor a load of this connector
Foreign(a) ==
    \/ a.event.kind = "VehicleEvent"
    \/ a.event.grid_connector_id /= gc_id
    \/ a.event.kind = "GridOperatorSignal" /\ a.event.max_power = None

\* C17: before any vehicle is scheduled, entry i of the forecast has as
\* max_power that of the last signal for this connector with a max_power
\* replayed at an index <= i, or the connector's cur_max_power if there is
\* none, and as cur_power the sum of the named components, each with the
\* latest value a fixed load or generation event (negated) for this connector
\* replayed at an index <= i gave it, or its value in the connector's
\* current_loads at the start of step_gc; events of other connectors and
\* signals without max_power change neither.
C17_LatestValueWins ==
    (gc_id /= NoId /\ StepGcLeft) =>
        \A j \in 1..Len(hist.base) :
            LET before == IF j = 1
                          THEN [max_power |-> hist.start_connectors[gc_id].cur_max_power,
                                cur_power |-> get_current_load(
                                    hist.start_connectors[gc_id].current_loads)]
                          ELSE hist.base[j - 1]
            IN  /\ hist.base[j].max_power = MaxPowerAt(j - 1)
                /\ hist.base[j].cur_power = get_current_load(LoadsAt(j - 1))
                /\ (\A k \in 1..Len(hist.applied) :
                        hist.applied[k].idx = j - 1 => Foreign(hist.applied[k]))
                   => /\ hist.base[j].max_power = before.max_power
                      /\ hist.base[j].cur_power = before.cur_power

\* a load of another connector is replayed without effect, then a fixed load
\* replaces the value the component had at step start
C17_Witness ==
    /\ Forecasted
    /\ gc_id = "GC1"
    /\ hist.start_connectors["GC1"].current_loads["load1"] = Q(2)
    /\ Len(hist.applied) = 2
    /\ hist.applied[1].event.grid_connector_id = "GC2" /\ hist.applied[1].idx = 1
    /\ hist.applied[2].event.kind = "FixedLoad" /\ hist.applied[2].idx = 2
    /\ hist.base[1].cur_power = Q(2)
    /\ hist.base[2].cur_power = Q(2)
    /\ hist.base[3].cur_power = Q(6)

----------------------------------------------------------------------------
(* C18: a departure closes the open record *)

\* the position of the replay at which record r was opened; 0 is the step start
OpeningOf(r) ==
    IF r <= Len(StandingAtStart) THEN 0
    ELSE CHOOSE x \in 1..Len(hist.applied) :
            /\ IsArrivalHere(hist.applied[x])
            /\ Cardinality({y \in 1..x : IsArrivalHere(hist.applied[y])})
                  = r - Len(StandingAtStart)

\* the departures of the vehicle of record r replayed after r was opened
Closers(r) ==
    {x \in (OpeningOf(r) + 1)..Len(hist.applied) : IsDepartureOf(x, hist.records[r].vid)}

\* record r is open when the replay has done position pos
OpenAfter(r, pos) ==
    /\ OpeningOf(r) <= pos
    /\ \A x \in Closers(r) : x > pos

\* C18: the first departure of a vehicle replayed after one of its records at
\* this connector was opened sets the depart_idx of that record to the index i
\* of the departure, whatever the estimate, with arrival_idx <= i, and the
\* vehicle is in no vehicle set from timestep i until its next arrival here; a
\* record without such a departure keeps its estimate, so a departure of a
\* vehicle without an open record changes no record; at every point of the
\* replay a vehicle has at most one open record.
C18_DepartureClosesOpenRecord ==
    (gc_id /= NoId /\ StepGcLeft) =>
        /\ \A r \in 1..Len(hist.records) :
              LET rec == hist.records[r]
              IN  IF Closers(r) = {} THEN rec.depart_idx = rec.first_depart_idx
                  ELSE LET x == CHOOSE c \in Closers(r) : \A d \in Closers(r) : c <= d
                           i == hist.applied[x].idx
                       IN  /\ rec.depart_idx = <<i>>
                           /\ rec.arrival_idx <= i
                           /\ \A t \in i..(Len(hist.base) - 1) :
                                 (\A y \in (x + 1)..Len(hist.applied) :
                                     ~(/\ IsArrivalHere(hist.applied[y])
                                       /\ hist.applied[y].event.vehicle_id = rec.vid
                                       /\ hist.applied[y].idx <= t))
                                 => rec.vid \notin DOMAIN hist.base[t + 1].vehicles
        /\ \A pos \in 0..Len(hist.applied), vid \in VehicleIds :
              Cardinality({r \in 1..Len(hist.records) :
                              hist.records[r].vid = vid /\ OpenAfter(r, pos)}) <= 1

\* the departure of a vehicle connected at step start replaces the estimate
\* of its record, and the vehicle has left the next timestep
C18_Witness ==
    /\ Forecasted
    /\ \E r \in 1..Len(hist.records) :
          /\ hist.records[r].first_depart_idx = <<5>>
          /\ hist.records[r].depart_idx = <<1>>
          /\ hist.records[r].vid \in DOMAIN hist.base[1].vehicles
          /\ hist.records[r].vid \notin DOMAIN hist.base[2].vehicles

----------------------------------------------------------------------------
(* C19: thresholds of the balancer *)

\* the horizon average of max(cur_power, 0) with the live load at index 0
AverageWith(load) ==
    Max(Div(SumSeq([j \in 1..Len(timesteps) |->
                       Max(IF j = 1 THEN load ELSE timesteps[j].cur_power, Zero)]),
            Q(Len(timesteps))), Zero)

\* what holds of the balancer whatever the reading of the thresholds: delta_power
\* is the horizon average minus the live load, an idle battery records 0, and
\* each battery sees the load as the batteries before it left it
BalancerChain ==
    /\ \A k \in 1..Len(Balanced) :
          /\ battery_type[Balanced[k].b_id].parent = gc_id
          /\ Balanced[k].avg_power = AverageWith(Balanced[k].load_before)
          /\ Balanced[k].delta_power = Sub(Balanced[k].avg_power, Balanced[k].load_before)
          /\ Balanced[k].mode = "idle" => Balanced[k].bat_power = Zero
          /\ Balanced[k].load_after = Add(Balanced[k].load_before, Balanced[k].bat_power)
          /\ k > 1 => Balanced[k].load_before = Balanced[k - 1].load_after
    /\ (pc = "return" /\ Balanced /= <<>>) =>
          /\ Balanced[Len(Balanced)].load_after =
                get_current_load(grid_connectors[gc_id].current_loads)
          /\ \A k \in 1..Len(Balanced) :
                grid_connectors[gc_id].current_loads[Balanced[k].b_id] = Balanced[k].bat_power

\* a battery is charged only above min_charging_power and discharged only
\* below -min_charging_power, with a positive and a negative recorded load
C19_BalancerBeyondThresholds ==
    /\ BalancerChain
    /\ \A k \in 1..Len(Balanced) :
          LET e == Balanced[k]
              min_charging_power == battery_type[e.b_id].min_charging_power
          IN  /\ e.mode = "charge" =>
                    /\ Gt(e.delta_power, min_charging_power)
                    /\ Gt(e.bat_power, Zero)
              /\ e.mode = "discharge" =>
                    /\ Lt(e.delta_power, Neg(min_charging_power))
                    /\ Lt(e.bat_power, Zero)

\* C19: for each stationary battery of the connector, with delta_power the
\* horizon average of max(cur_power, 0) minus the connector's live load, the
\* battery is charged exactly if delta_power is at least min_charging_power,
\* discharged exactly if it is not charged and delta_power is at most
\* -min_charging_power, and otherwise left idle with a recorded power of 0; the
\* recorded load is not negative for charging and not positive for
\* discharging, and each battery sees the load already changed by the
\* batteries before it.
C19_BalancerThresholds ==
    /\ BalancerChain
    /\ \A k \in 1..Len(Balanced) :
          LET e == Balanced[k]
              min_charging_power == battery_type[e.b_id].min_charging_power
          IN  /\ e.mode = "charge" <=> Ge(e.delta_power, min_charging_power)
              /\ e.mode = "discharge" <=>
                    /\ Lt(e.delta_power, min_charging_power)
                    /\ Le(e.delta_power, Neg(min_charging_power))
              /\ e.mode \in {"charge", "discharge", "idle"}
              /\ e.mode = "charge" => Ge(e.bat_power, Zero)
              /\ e.mode = "discharge" => Le(e.bat_power, Zero)

\* a battery discharges with delta_power at -min_charging_power, and the next
\* battery starts from the load the first one left
C19_Witness ==
    /\ pc = "return"
    /\ Len(Balanced) = 2
    /\ Balanced[1].delta_power = Neg(battery_type[Balanced[1].b_id].min_charging_power)
    /\ Balanced[1].mode = "discharge"
    /\ Lt(Balanced[1].bat_power, Zero)
    /\ Balanced[2].load_before = Balanced[1].load_after
    /\ Balanced[2].load_before /= Balanced[1].load_before

----------------------------------------------------------------------------
(* C20: shortfall compensation *)

\* the charged timesteps i < j of f with no charged timestep between them
Successive(f, i, j) ==
    /\ i \in f.out.charged /\ j \in f.out.charged /\ i < j
    /\ \A x \in f.out.charged : ~(i < x /\ x < j)

\* the power requested at timestep i is taken from the fill level plus what
\* has been carried to i
FromLevel(f, i) ==
    f.out.raw[i + 1] =
        Sub(Min(Add(f.out.opt_power, f.out.delta_in[i + 1]), f.before[i + 1].max_power),
            f.before[i + 1].cur_power)

\* whatever is missing of the power requested from the fill level, by
\* clamp_power or by the battery, is carried to the next timestep
C20_EveryShortfallCarried ==
    \A k \in 1..Len(Fills) :
        LET f == Fills[k]
        IN  \A i, j \in f.out.charged :
                /\ FromLevel(f, i)
                /\ (Successive(f, i, j) /\ Lt(f.out.avg_power[i + 1], f.out.raw[i + 1])) =>
                      f.out.delta_in[j + 1] =
                          Add(f.out.delta_in[i + 1],
                              Sub(f.out.raw[i + 1], f.out.avg_power[i + 1]))

\* C20: within one vehicle's window in fast_charge, whenever the battery
\* delivers less at a timestep than the power requested of it after
\* clamp_power, the missing amount is carried forward and added to the fill
\* level, before the cap at max_power, of the later timesteps of the window;
\* what clamp_power takes off the power requested from the fill level is not
\* carried forward.
C20_BatteryShortfallCarried ==
    \A k \in 1..Len(Fills) :
        LET f == Fills[k]
        IN  \A i, j \in f.out.charged :
                /\ FromLevel(f, i)
                /\ (\A x \in f.out.charged : i <= x) => f.out.delta_in[i + 1] = Zero
                /\ Successive(f, i, j) =>
                      /\ f.out.delta_in[j + 1] =
                            Add(f.out.delta_in[i + 1],
                                Sub(f.out.power[i + 1], f.out.avg_power[i + 1]))
                      /\ f.out.avg_power[i + 1] = f.out.power[i + 1] =>
                            f.out.delta_in[j + 1] = f.out.delta_in[i + 1]

\* a window in which the battery fell short of the request of one timestep
\* and the shortfall raised the request of the next timestep, below its cap
C20_Witness ==
    \E k \in 1..Len(Fills) :
        \E i, j \in Fills[k].out.charged :
            /\ Successive(Fills[k], i, j)
            /\ Gt(Fills[k].out.power[i + 1], Fills[k].out.avg_power[i + 1])
            /\ Gt(Fills[k].out.delta_in[j + 1], Fills[k].out.delta_in[i + 1])
            /\ Lt(Add(Fills[k].out.opt_power, Fills[k].out.delta_in[j + 1]),
                  Fills[k].before[j + 1].max_power)
            /\ Fills[k].out.raw[j + 1] =
                  Sub(Add(Fills[k].out.opt_power, Fills[k].out.delta_in[j + 1]),
                      Fills[k].before[j + 1].cur_power)
            /\ Gt(Fills[k].out.power[j + 1], Zero)

----------------------------------------------------------------------------
(* C21: the projected load stays under the ceiling *)

\* C21: the battery delivering no more than requested, after every fast_charge
\* call the projected cur_power of every timestep is at most the larger of its
\* max_power and its cur_power before the call, and a timestep outside the
\* charged ones is as before; so once all vehicles are scheduled no timestep
\* whose forecast load started at or below its ceiling is projected above it,
\* whether the fill level was interpolated or extrapolated.
C21_ProjectedLoadUnderCeiling ==
    \A k \in 1..Len(Fills) :
        LET f == Fills[k]
        IN  \A j \in 1..Len(f.before) :
                /\ Le(f.out.avg_power[j], Max(f.out.power[j], Zero))
                /\ f.out.ts[j].max_power = f.before[j].max_power
                /\ f.out.ts[j].cur_power = Add(f.before[j].cur_power, f.out.avg_power[j])
                /\ (j - 1) \notin f.out.charged => f.out.ts[j] = f.before[j]
                /\ Le(f.out.ts[j].cur_power,
                      Max(f.before[j].max_power, f.before[j].cur_power))
                /\ Le(hist.base[j].cur_power, hist.base[j].max_power) =>
                      Le(f.out.ts[j].cur_power, hist.base[j].max_power)

\* two vehicles have been scheduled, the second with a level extrapolated above
\* the highest load of its window, and a timestep both charged at is filled to
\* its ceiling
C21_Witness ==
    /\ Len(Fills) = 2
    /\ Fills[2].out.how = "extrapolated"
    /\ \E j \in 1..H :
          /\ Gt(Fills[1].out.avg_power[j], Zero)
          /\ Gt(Fills[2].out.avg_power[j], Zero)
          /\ Fills[2].out.ts[j].cur_power = hist.base[j].max_power

----------------------------------------------------------------------------
(* C22: the surplus is not handed out twice *)

\* what the surplus loop has added to the fill schedules so far
SurplusAdded ==
    SumSeq([k \in 1..Len(hist.surplus) |->
               IF hist.surplus[k].error THEN Zero
               ELSE Sub(hist.surplus[k].schedule, hist.surplus[k].fill)])

\* C22: in one step_gc call the power the surplus loop adds to the fill
\* schedules of the vehicles connected at the current step sums to at most the
\* net generation surplus -min(timesteps[0].cur_power, 0) of the current
\* timestep, however many vehicles are connected.
C22_SurplusNotHandedOutTwice ==
    \A k \in 1..Len(hist.surplus) :
        ~hist.surplus[k].error =>
            Le(SurplusAdded, Neg(Min(hist.surplus[k].cur_power, Zero)))

----------------------------------------------------------------------------
(* C23: the level sweep of fast_charge is total *)

WindowLength(f) == f.v_info.depart_idx[1] - f.v_info.arrival_idx

\* C23: for every fast_charge call on a window with arrival_idx < depart_idx
\* (a window of one timestep included) and energy_needed > 0, the while loop of
\* lines 247-268 ends within two passes per power level, the interpolation of
\* line 262 divides by energy - prev_energy > 0, and when the extrapolation of
\* line 272 runs idx is the window length, which is at least 1: fast_charge
\* never divides by zero.
C23_LevelSweepTotal ==
    \A k \in 1..Len(Fills) :
        LET f == Fills[k]
        IN  (WindowLength(f) >= 1 /\ Gt(f.v_info.energy_needed, Zero)) =>
                /\ f.out.how \notin SweepFailed
                /\ f.out.iters <= 2 * WindowLength(f)
                /\ f.out.how = "interpolated" => Gt(f.out.divisor, Zero)
                /\ f.out.how = "extrapolated" =>
                      f.out.idx = WindowLength(f) /\ f.out.idx >= 1

C23_Witness ==
    /\ Len(Fills) = 1
    /\ WindowLength(Fills[1]) = 1
    /\ Gt(Fills[1].v_info.energy_needed, Zero)
    /\ Fills[1].out.how = "extrapolated"
    /\ Fills[1].out.idx = 1

====
